---------------------------- MODULE Spec2Model ----------------------------
(***************************************************************************)
(* polyTEOS10.py: four polynomial approximations of the TEOS-10 equation   *)
(* of state of seawater.  Each function takes the absolute salinity SA,    *)
(* the conservative temperature CT and the pressure p, and returns five    *)
(* values computed by nested (Horner) polynomials in                       *)
(*     ss = sqrt((SA + deltaS) / SAu),  tt = CT / CTu,  pp = p / Zu.       *)
(*                                                                         *)
(* The module keeps no state: a run of the model is a sequence of calls,   *)
(* each one evaluated in float64 arithmetic as Python and numpy do it.     *)
(***************************************************************************)
EXTENDS Integers, Sequences, FiniteSets, TLC

VARIABLES
  pc,     \* "idle", "returned" (the call returned its tuple) or "raised"
  fn,     \* the function called last, "none" when idle
  args,   \* its arguments << SA, CT, p >>
  out     \* what it returned, or the exception it raised

vars == << pc, fn, args, out >>

(***************************************************************************)
(* Natural numbers of any size.  TLC's integers are 32 bits wide, a        *)
(* float64 significand is 53 bits and the product of two is 106, so a      *)
(* natural is held as its limbs in base 2^14, least significant first,     *)
(* with no leading zero limb (zero is the empty sequence).                 *)
(***************************************************************************)
LimbBits == 14

Limb == 2^LimbBits

Max(x, y) == IF x >= y THEN x ELSE y

Min(x, y) == IF x <= y THEN x ELSE y

RECURSIVE BNorm(_)
BNorm(a) ==
  IF a = << >> THEN << >>
  ELSE IF a[Len(a)] = 0 THEN BNorm(SubSeq(a, 1, Len(a) - 1)) ELSE a

BFromInt(n) ==
  IF n = 0 THEN << >>
  ELSE IF n < Limb THEN << n >>
  ELSE IF n < Limb * Limb THEN << n % Limb, n \div Limb >>
  ELSE << n % Limb, (n \div Limb) % Limb, n \div (Limb * Limb) >>

BLimb(a, i) == IF i >= 1 /\ i <= Len(a) THEN a[i] ELSE 0

RECURSIVE BCmpFrom(_, _, _)
BCmpFrom(a, b, i) ==
  IF i = 0 THEN 0
  ELSE IF a[i] > b[i] THEN 1
  ELSE IF a[i] < b[i] THEN -1
  ELSE BCmpFrom(a, b, i - 1)

BCmp(a, b) ==
  IF Len(a) > Len(b) THEN 1
  ELSE IF Len(a) < Len(b) THEN -1
  ELSE BCmpFrom(a, b, Len(a))

RECURSIVE BAddFrom(_, _, _, _)
BAddFrom(a, b, i, c) ==
  IF i > Len(a) /\ i > Len(b) THEN (IF c = 0 THEN << >> ELSE << c >>)
  ELSE << (BLimb(a, i) + BLimb(b, i) + c) % Limb >>
       \o BAddFrom(a, b, i + 1, (BLimb(a, i) + BLimb(b, i) + c) \div Limb)

BAdd(a, b) == BAddFrom(a, b, 1, 0)

RECURSIVE BSubFrom(_, _, _, _)
BSubFrom(a, b, i, c) ==
  IF i > Len(a) THEN << >>
  ELSE << (a[i] - BLimb(b, i) - c + Limb) % Limb >>
       \o BSubFrom(a, b, i + 1, IF a[i] - BLimb(b, i) - c < 0 THEN 1 ELSE 0)

\* a - b for a >= b
BSub(a, b) == BNorm(BSubFrom(a, b, 1, 0))

RECURSIVE BMulSmallFrom(_, _, _, _)
BMulSmallFrom(a, d, i, c) ==
  IF i > Len(a) THEN (IF c = 0 THEN << >> ELSE << c >>)
  ELSE << (a[i] * d + c) % Limb >>
       \o BMulSmallFrom(a, d, i + 1, (a[i] * d + c) \div Limb)

\* a * d for 0 <= d < 2^14
BMulSmall(a, d) == IF d = 0 THEN << >> ELSE BMulSmallFrom(a, d, 1, 0)

BShlLimbs(a, n) == IF a = << >> THEN << >> ELSE [i \in 1..n |-> 0] \o a

RECURSIVE BMulFrom(_, _, _)
BMulFrom(a, b, j) ==
  IF j > Len(b) THEN << >>
  ELSE BAdd(BShlLimbs(BMulSmall(a, b[j]), j - 1), BMulFrom(a, b, j + 1))

BMul(a, b) == BMulFrom(a, b, 1)

\* a * 2^k
BShl(a, k) == BShlLimbs(BMulSmall(a, 2^(k % LimbBits)), k \div LimbBits)

\* floor(a / 2^k)
BShr(a, k) ==
  LET n == k \div LimbBits
      r == k % LimbBits
      t == Len(a) - n
  IN  IF t <= 0 THEN << >>
      ELSE BNorm([i \in 1..t |->
                   (a[i + n] \div 2^r)
                   + (BLimb(a, i + n + 1) % 2^r) * 2^(LimbBits - r)])

RECURSIVE IntBitLen(_)
IntBitLen(n) == IF n = 0 THEN 0 ELSE 1 + IntBitLen(n \div 2)

BBitLen(a) ==
  IF a = << >> THEN 0 ELSE (Len(a) - 1) * LimbBits + IntBitLen(a[Len(a)])

\* bit i of a (bit 0 is the least significant)
BBit(a, i) == (BLimb(a, i \div LimbBits + 1) \div 2^(i % LimbBits)) % 2

\* whether the k low bits of a are all zero
BLowZero(a, k) ==
  /\ \A i \in 1..Min(k \div LimbBits, Len(a)) : a[i] = 0
  /\ BLimb(a, k \div LimbBits + 1) % 2^(k % LimbBits) = 0

RECURSIVE BDivSmallFrom(_, _, _, _)
\* the limbs i..1 of floor(a / d) given the remainder r of the limbs above i
BDivSmallFrom(a, d, i, r) ==
  IF i = 0 THEN << >>
  ELSE BDivSmallFrom(a, d, i - 1, (r * Limb + a[i]) % d)
       \o << (r * Limb + a[i]) \div d >>

RECURSIVE BModSmallFrom(_, _, _, _)
BModSmallFrom(a, d, i, r) ==
  IF i = 0 THEN r ELSE BModSmallFrom(a, d, i - 1, (r * Limb + a[i]) % d)

\* floor(a / d) and a mod d for 0 < d < 2^14
BDivSmall(a, d) == BNorm(BDivSmallFrom(a, d, Len(a), 0))

BModSmall(a, d) == BModSmallFrom(a, d, Len(a), 0)

RECURSIVE BQuotDigitFrom(_, _, _)
\* the largest digit q <= est with d * q <= r
BQuotDigitFrom(r, d, est) ==
  IF BCmp(BMulSmall(d, est), r) > 0 THEN BQuotDigitFrom(r, d, est - 1) ELSE est

\* floor(r / d) for r < d * 2^14 and d with its top limb >= 2^13: the two top
\* limbs of r over the top limb of d give the digit or at most 2 more
BQuotDigit(r, d) ==
  BQuotDigitFrom(r, d,
    Min(Limb - 1,
        (BLimb(r, Len(d) + 1) * Limb + BLimb(r, Len(d))) \div d[Len(d)]))

RECURSIVE BDivModFrom(_, _, _, _)
\* long division, one limb of the numerator at a time: the i quotient limbs
\* and the remainder of r * 2^(14 i) + (the limbs i..1 of a) by d, for r < d
BDivModFrom(a, d, i, r) ==
  IF i = 0 THEN << << >>, r >>
  ELSE LET r1 == BNorm(<< a[i] >> \o r)
           q  == BQuotDigit(r1, d)
           t  == BDivModFrom(a, d, i - 1, BSub(r1, BMulSmall(d, q)))
       IN  << t[1] \o << q >>, t[2] >>

\* << floor(a / d), a mod d >> for d > 0: both are first scaled so that the
\* top limb of d is 2^13 or more
BDivMod(a, d) ==
  LET sc == LimbBits - IntBitLen(d[Len(d)])
      t  == BDivModFrom(BShl(a, sc), BShl(d, sc), Len(BShl(a, sc)), << >>)
  IN  << BNorm(t[1]), BShr(t[2], sc) >>

RECURSIVE BSqrtFrom(_, _)
\* Newton's iteration from an x >= floor(sqrt(a)), down to the fixed point
BSqrtFrom(a, x) ==
  LET y == BShr(BAdd(x, BDivMod(a, x)[1]), 1)
  IN  IF BCmp(y, x) >= 0 THEN x ELSE BSqrtFrom(a, y)

\* floor(sqrt(a))
BSqrt(a) ==
  IF a = << >> THEN << >>
  ELSE BSqrtFrom(a, BShl(<< 1 >>, (BBitLen(a) + 1) \div 2))

RECURSIVE BPow10(_)
BPow10(n) ==
  IF n = 0 THEN << 1 >>
  ELSE IF n >= 4 THEN BMulSmall(BPow10(n - 4), 10000)
  ELSE BMulSmall(BPow10(n - 1), 10)

(***************************************************************************)
(* IEEE 754 binary64, the arithmetic of a Python float and of a            *)
(* numpy.float64.  A finite value is (-1)^s * m * 2^e with m < 2^53 and    *)
(* e >= -1074, normalised so that each double has one representation:      *)
(* m >= 2^52 unless e = -1074 (a subnormal), and zero is m = << >>, e = 0. *)
(* Every NaN is the one value NaN (payloads are not modelled).             *)
(* Rounding is to nearest, ties to even.                                   *)
(***************************************************************************)
MantBits == 53

EMin == -1074

EMax == 971

Fin(s, m, e) == [k |-> "fin", s |-> s, m |-> m, e |-> e]

FZero(s) == Fin(s, << >>, 0)

FInf(s) == [k |-> "inf", s |-> s, m |-> << >>, e |-> 0]

NaN == [k |-> "nan", s |-> 0, m |-> << >>, e |-> 0]

IsFinite(x) == x.k = "fin"

IsZero(x) == x.k = "fin" /\ x.m = << >>

Xor(a, b) == (a + b) % 2

\* the double of m * 2^e once m is rounded: normalised, or infinite
FPack(s, m, e) ==
  IF m = << >> THEN FZero(s)
  ELSE IF BBitLen(m) > MantBits
       THEN (IF e + 1 > EMax THEN FInf(s) ELSE Fin(s, BShr(m, 1), e + 1))
  ELSE IF e > EMax THEN FInf(s)
  ELSE Fin(s, m, e)

\* the double nearest to (-1)^s * n * 2^e
FRound(s, n, e) ==
  IF n = << >> THEN FZero(s)
  ELSE LET e1 == Max(e + BBitLen(n) - MantBits, EMin)
           sh == e1 - e
       IN  IF sh <= 0 THEN FPack(s, BShl(n, -sh), e1)
           ELSE LET q  == BShr(n, sh)
                    up == /\ BBit(n, sh - 1) = 1
                          /\ (~BLowZero(n, sh - 1) \/ BBit(q, 0) = 1)
                IN  FPack(s, IF up THEN BAdd(q, << 1 >>) ELSE q, e1)

\* the sum of two finite nonzero doubles
FAddFin(x, y) ==
  LET far == 60
      \* an operand more than 2^far times smaller only decides the rounding
      big == IF x.e >= y.e THEN x ELSE y
      sml == IF x.e >= y.e THEN y ELSE x
      e   == IF big.e - sml.e > far THEN big.e - 8 ELSE sml.e
      mb  == BShl(big.m, big.e - e)
      ms  == IF big.e - sml.e > far THEN << 1 >> ELSE sml.m
      c   == BCmp(mb, ms)
  IN  IF big.s = sml.s THEN FRound(big.s, BAdd(mb, ms), e)
      ELSE IF c = 0 THEN FZero(0)
      ELSE IF c > 0 THEN FRound(big.s, BSub(mb, ms), e)
      ELSE FRound(sml.s, BSub(ms, mb), e)

FAdd(x, y) ==
  IF x.k = "nan" \/ y.k = "nan" THEN NaN
  ELSE IF x.k = "inf" THEN (IF y.k = "inf" /\ y.s # x.s THEN NaN ELSE x)
  ELSE IF y.k = "inf" THEN y
  ELSE IF x.m = << >> /\ y.m = << >> THEN FZero(IF x.s = 1 /\ y.s = 1 THEN 1 ELSE 0)
  ELSE IF x.m = << >> THEN y
  ELSE IF y.m = << >> THEN x
  ELSE FAddFin(x, y)

FMul(x, y) ==
  IF x.k = "nan" \/ y.k = "nan" THEN NaN
  ELSE IF x.k = "inf" \/ y.k = "inf"
       THEN (IF IsZero(x) \/ IsZero(y) THEN NaN ELSE FInf(Xor(x.s, y.s)))
  ELSE IF x.m = << >> \/ y.m = << >> THEN FZero(Xor(x.s, y.s))
  ELSE FRound(Xor(x.s, y.s), BMul(x.m, y.m), x.e + y.e)

\* the quotient of two finite nonzero doubles: 57 or more quotient bits, and
\* one more that says whether a remainder is left
FDivFin(x, y) ==
  LET k  == MantBits + 3 + BBitLen(y.m) - BBitLen(x.m)
      qr == BDivMod(BShl(x.m, k), y.m)
      n  == BAdd(BMulSmall(qr[1], 2), IF qr[2] = << >> THEN << >> ELSE << 1 >>)
  IN  FRound(Xor(x.s, y.s), n, x.e - y.e - k - 1)

FDiv(x, y) ==
  IF x.k = "nan" \/ y.k = "nan" THEN NaN
  ELSE IF x.k = "inf" THEN (IF y.k = "inf" THEN NaN ELSE FInf(Xor(x.s, y.s)))
  ELSE IF y.k = "inf" THEN FZero(Xor(x.s, y.s))
  ELSE IF y.m = << >> THEN (IF x.m = << >> THEN NaN ELSE FInf(Xor(x.s, y.s)))
  ELSE IF x.m = << >> THEN FZero(Xor(x.s, y.s))
  ELSE FDivFin(x, y)

\* the square root of a finite positive double: the exponent is made even
\* and the significand wide enough for 56 or more root bits
FSqrtFin(x) ==
  LET k0 == 2 * MantBits + 6 - BBitLen(x.m)
      k  == IF (x.e - k0) % 2 = 0 THEN k0 ELSE k0 + 1
      n  == BShl(x.m, k)
      r  == BSqrt(n)
      r2 == BAdd(BMulSmall(r, 2), IF BMul(r, r) = n THEN << >> ELSE << 1 >>)
  IN  FRound(0, r2, (x.e - k) \div 2 - 1)

FSqrt(x) ==
  IF x.k = "nan" THEN NaN
  ELSE IF x.k = "fin" /\ x.m = << >> THEN x
  ELSE IF x.s = 1 THEN NaN
  ELSE IF x.k = "inf" THEN x
  ELSE FSqrtFin(x)

(***************************************************************************)
(* A decimal literal of the source: (-1)^s * (hi * 10^5 + lo) * 10^x, the  *)
(* digits split in two because an 11-digit significand exceeds 32 bits.    *)
(* Python reads a literal as the double nearest to it.                     *)
(***************************************************************************)
Dec(s, hi, lo, x) == [s |-> s, hi |-> hi, lo |-> lo, x |-> x]

\* the significand hi * 10^5 + lo
DecMant(d) == BAdd(BMulSmall(BMulSmall(BFromInt(d.hi), 10000), 10), BFromInt(d.lo))

RECURSIVE BDivPow10(_, _)
\* << floor(n / 10^k), whether a remainder is left >>
BDivPow10(n, k) ==
  IF k = 0 THEN << n, FALSE >>
  ELSE LET d == IF k >= 4 THEN 10000 ELSE 10
           t == BDivPow10(BDivSmall(n, d), IF k >= 4 THEN k - 4 ELSE k - 1)
       IN  << t[1], t[2] \/ BModSmall(n, d) # 0 >>

FromDec(d) ==
  LET m == DecMant(d)
  IN  IF d.x >= 0 THEN FRound(d.s, BMul(m, BPow10(d.x)), 0)
      ELSE LET k  == MantBits + 4 + 4 * (-d.x)
               qr == BDivPow10(BShl(m, k), -d.x)
               n  == BAdd(BMulSmall(qr[1], 2), IF qr[2] THEN << 1 >> ELSE << >>)
           IN  FRound(d.s, n, -k - 1)

(***************************************************************************)
(* The values the code computes with.  A Python float and a numpy.float64  *)
(* hold the same doubles but behave differently on a division by zero: a   *)
(* Python float raises ZeroDivisionError, numpy returns inf or nan (with a *)
(* warning).  An ndarray is a one-dimensional array of doubles; numpy      *)
(* applies + * / and sqrt element by element and broadcasts a scalar, or   *)
(* an array of one element, over the other operand.                        *)
(***************************************************************************)
PyFloat(f) == [t |-> "float", v |-> f]

NpFloat(f) == [t |-> "float64", v |-> f]

NdArray(fs) == [t |-> "ndarray", v |-> fs]

Raise(exc) == [t |-> "raise", v |-> exc]

IsRaise(u) == u.t = "raise"

IsArray(u) == u.t = "ndarray"

\* the shape of a value, as numpy.shape gives it
Shape(u) == IF IsArray(u) THEN << Len(u.v) >> ELSE << >>

\* a literal of the source: its text, and the Python float it denotes
Lit(s, hi, lo, x) ==
  [dec |-> Dec(s, hi, lo, x), val |-> PyFloat(FromDec(Dec(s, hi, lo, x)))]

\* the powers of s and t exchanged: the coefficient named Tjik
C_transposed(tab, i, j, k) == tab[k + 1][i + 1][j + 1].val

\* the coefficient named Tijk in the source, and the one named T0k or T1k
C(tab, i, j, k) == tab[k + 1][j + 1][i + 1].val

C0(tab, k) == tab[k + 1].val

\* one operation on two doubles
FOp(op, x, y) ==
  CASE op = "add" -> FAdd(x, y)
    [] op = "mul" -> FMul(x, y)
    [] op = "div" -> FDiv(x, y)

\* the first element for every index
At_first(u, i) == IF IsArray(u) THEN u.v[1] ELSE u.v

\* element i of an operand broadcast to a longer array
At(u, i) == IF IsArray(u) THEN u.v[IF Len(u.v) = 1 THEN 1 ELSE i] ELSE u.v

\* whether the shapes of two operands, one of them an array, broadcast
Broadcastable(u, w) ==
  ~IsArray(u) \/ ~IsArray(w) \/ Len(u.v) = Len(w.v) \/ Len(u.v) = 1 \/ Len(w.v) = 1

\* the length they broadcast to
BroadcastLen(u, w) ==
  IF ~IsArray(u) THEN Len(w.v)
  ELSE IF ~IsArray(w) \/ Len(w.v) = 1 THEN Len(u.v)
  ELSE Len(w.v)

RECURSIVE Elementwise(_, _, _, _, _)
Elementwise(op, u, w, i, n) ==
  IF i > n THEN << >>
  ELSE << FOp(op, At(u, i), At(w, i)) >> \o Elementwise(op, u, w, i + 1, n)

\* u op w, for op one of + * /
NBin(op, u, w) ==
  IF u.t = "raise" THEN u
  ELSE IF w.t = "raise" THEN w
  ELSE IF u.t = "float" /\ w.t = "float"
       THEN (IF op = "div" /\ IsZero(w.v) THEN Raise("ZeroDivisionError")
             ELSE PyFloat(FOp(op, u.v, w.v)))
  ELSE IF u.t # "ndarray" /\ w.t # "ndarray" THEN NpFloat(FOp(op, u.v, w.v))
  ELSE IF ~Broadcastable(u, w) THEN Raise("ValueError")
  ELSE NdArray(Elementwise(op, u, w, 1, BroadcastLen(u, w)))

u (+) w == NBin("add", u, w)

u (.) w == NBin("mul", u, w)

u (/) w == NBin("div", u, w)

RECURSIVE SqrtEach(_, _)
SqrtEach(fs, i) ==
  IF i > Len(fs) THEN << >> ELSE << FSqrt(fs[i]) >> \o SqrtEach(fs, i + 1)

\* math.sqrt in place of npy.sqrt: a Python float for a scalar, ValueError for
\* a negative one, TypeError for an array
MSqrt(u) ==
  IF IsRaise(u) THEN u
  ELSE IF IsArray(u) THEN Raise("TypeError")
  ELSE IF u.v.k = "fin" /\ u.v.s = 1 /\ u.v.m # << >> THEN Raise("ValueError")
  ELSE IF u.v.k = "inf" /\ u.v.s = 1 THEN Raise("ValueError")
  ELSE PyFloat(FSqrt(u.v))

\* npy.sqrt: a numpy.float64 for a scalar (nan and a warning for a negative
\* one), an array for an array
NSqrt(u) ==
  IF IsRaise(u) THEN u
  ELSE IF IsArray(u) THEN NdArray(SqrtEach(u.v, 1))
  ELSE NpFloat(FSqrt(u.v))

\* the end of a function body: the tuple returned, unless one of the
\* statements, taken in order, raised
Return(stmts, vals) ==
  LET bad == {i \in 1..Len(stmts) : IsRaise(stmts[i])}
  IN  IF bad = {} THEN [t |-> "tuple", v |-> vals]
      ELSE stmts[CHOOSE i \in bad : \A j \in bad : i <= j]

(***************************************************************************)
(* polyTEOS10_bsq, lines 57-163                                            *)
(***************************************************************************)
\* R0k is the coefficient of p~^(k+1): bsq_R0[k + 1] (lines 66-67)
bsq_R0 ==
  << Lit(0, 464949, 77072, -9),             \* R00 = 4.6494977072e+01
     Lit(1, 520999, 62525, -10),            \* R01 = -5.2099962525e+00
     Lit(0, 226019, 708, -11),              \* R02 = 2.2601900708e-01
     Lit(0, 643267, 72569, -12),            \* R03 = 6.4326772569e-02
     Lit(0, 156169, 95503, -12),            \* R04 = 1.5616995503e-02
     Lit(1, 172437, 8991, -13) >>           \* R05 = -1.7243708991e-03

\* Rijk is the coefficient of s^i t^j p~^k: bsq_R[k + 1][j + 1][i + 1] (lines 71-88)
bsq_R ==
  << << << Lit(0, 801896, 15746, -8),                     \* R000 = 8.0189615746e+02
           Lit(0, 866724, 8165, -8),                      \* R100 = 8.6672408165e+02
           Lit(1, 178646, 82637, -7),                     \* R200 = -1.7864682637e+03
           Lit(0, 203752, 95546, -7),                     \* R300 = 2.0375295546e+03
           Lit(1, 128491, 61071, -7),                     \* R400 = -1.2849161071e+03
           Lit(0, 432275, 85684, -8),                     \* R500 = 4.3227585684e+02
           Lit(1, 605799, 16612, -9) >>,                  \* R600 = -6.0579916612e+01
        << Lit(0, 260101, 45068, -9),                     \* R010 = 2.6010145068e+01
           Lit(1, 652818, 85265, -9),                     \* R110 = -6.5281885265e+01
           Lit(0, 817704, 25108, -9),                     \* R210 = 8.1770425108e+01
           Lit(1, 568880, 46321, -9),                     \* R310 = -5.6888046321e+01
           Lit(0, 176818, 14114, -9),                     \* R410 = 1.7681814114e+01
           Lit(1, 191935, 2195, -10) >>,                  \* R510 = -1.9193502195e+00
        << Lit(1, 370741, 70417, -9),                     \* R020 = -3.7074170417e+01
           Lit(0, 615482, 58127, -9),                     \* R120 = 6.1548258127e+01
           Lit(1, 603625, 51501, -9),                     \* R220 = -6.0362551501e+01
           Lit(0, 291300, 21253, -9),                     \* R320 = 2.9130021253e+01
           Lit(1, 547236, 92739, -10) >>,                 \* R420 = -5.4723692739e+00
        << Lit(0, 216617, 89529, -9),                     \* R030 = 2.1661789529e+01
           Lit(1, 334491, 8469, -9),                      \* R130 = -3.3449108469e+01
           Lit(0, 197170, 78466, -9),                     \* R230 = 1.9717078466e+01
           Lit(1, 317429, 46532, -10) >>,                 \* R330 = -3.1742946532e+00
        << Lit(1, 836278, 85467, -10),                    \* R040 = -8.3627885467e+00
           Lit(0, 113115, 38584, -9),                     \* R140 = 1.1311538584e+01
           Lit(1, 535633, 4045, -10) >>,                  \* R240 = -5.3563304045e+00
        << Lit(0, 540487, 23791, -11),                    \* R050 = 5.4048723791e-01
           Lit(0, 481699, 80163, -11) >>,                 \* R150 = 4.8169980163e-01
        << Lit(1, 190835, 68888, -11) >> >>,              \* R060 = -1.9083568888e-01
     << << Lit(0, 196819, 25209, -9),                     \* R001 = 1.9681925209e+01
           Lit(1, 425499, 98214, -9),                     \* R101 = -4.2549998214e+01
           Lit(0, 507747, 68218, -9),                     \* R201 = 5.0774768218e+01
           Lit(1, 309380, 76334, -9),                     \* R301 = -3.0938076334e+01
           Lit(0, 660517, 53097, -10) >>,                 \* R401 = 6.6051753097e+00
        << Lit(1, 133363, 1113, -9),                      \* R011 = -1.3336301113e+01
           Lit(1, 448701, 14575, -10),                    \* R111 = -4.4870114575e+00
           Lit(0, 500425, 98061, -10),                    \* R211 = 5.0042598061e+00
           Lit(1, 653990, 43664, -11) >>,                 \* R311 = -6.5399043664e-01
        << Lit(0, 670804, 79603, -10),                    \* R021 = 6.7080479603e+00
           Lit(0, 350630, 81279, -10),                    \* R121 = 3.5063081279e+00
           Lit(1, 187953, 72996, -10) >>,                 \* R221 = -1.8795372996e+00
        << Lit(1, 246496, 69534, -10),                    \* R031 = -2.4649669534e+00
           Lit(1, 550771, 1279, -11) >>,                  \* R131 = -5.5077101279e-01
        << Lit(0, 559279, 35970, -11) >> >>,              \* R041 = 5.5927935970e-01
     << << Lit(0, 206609, 24175, -10),                    \* R002 = 2.0660924175e+00
           Lit(1, 495276, 3989, -10),                     \* R102 = -4.9527603989e+00
           Lit(0, 250196, 33244, -10) >>,                 \* R202 = 2.5019633244e+00
        << Lit(0, 205643, 11499, -10),                    \* R012 = 2.0564311499e+00
           Lit(1, 213113, 65518, -11) >>,                 \* R112 = -2.1311365518e-01
        << Lit(1, 124199, 83026, -10) >> >>,              \* R022 = -1.2419983026e+00
     << << Lit(1, 233427, 58797, -12),                    \* R003 = -2.3342758797e-02
           Lit(1, 185076, 36718, -12) >>,                 \* R103 = -1.8507636718e-02
        << Lit(0, 379698, 20455, -11) >> >> >>            \* R013 = 3.7969820455e-01

\* ALPijk is the coefficient of s^i t^j p~^k: bsq_ALP[k + 1][j + 1][i + 1] (lines 107-118)
bsq_ALP ==
  << << << Lit(1, 650253, 62670, -11),                    \* ALP000 = -6.5025362670e-01
           Lit(0, 163204, 71316, -10),                    \* ALP100 = 1.6320471316e+00
           Lit(1, 204426, 6277, -10),                     \* ALP200 = -2.0442606277e+00
           Lit(0, 142220, 11580, -10),                    \* ALP300 = 1.4222011580e+00
           Lit(1, 442045, 35284, -11),                    \* ALP400 = -4.4204535284e-01
           Lit(0, 479837, 55487, -12) >>,                 \* ALP500 = 4.7983755487e-02
        << Lit(0, 185370, 85209, -10),                    \* ALP010 = 1.8537085209e+00
           Lit(1, 307741, 29064, -10),                    \* ALP110 = -3.0774129064e+00
           Lit(0, 301812, 75751, -10),                    \* ALP210 = 3.0181275751e+00
           Lit(1, 145650, 10626, -10),                    \* ALP310 = -1.4565010626e+00
           Lit(0, 273618, 46370, -11) >>,                 \* ALP410 = 2.7361846370e-01
        << Lit(1, 162463, 42147, -10),                    \* ALP020 = -1.6246342147e+00
           Lit(0, 250868, 31352, -10),                    \* ALP120 = 2.5086831352e+00
           Lit(1, 147878, 8849, -10),                     \* ALP220 = -1.4787808849e+00
           Lit(0, 238072, 9899, -11) >>,                  \* ALP320 = 2.3807209899e-01
        << Lit(0, 836278, 85467, -11),                    \* ALP030 = 8.3627885467e-01
           Lit(1, 113115, 38584, -10),                    \* ALP130 = -1.1311538584e+00
           Lit(0, 535633, 4045, -11) >>,                  \* ALP230 = 5.3563304045e-01
        << Lit(1, 675609, 4739, -12),                     \* ALP040 = -6.7560904739e-02
           Lit(1, 602124, 75204, -12) >>,                 \* ALP140 = -6.0212475204e-02
        << Lit(0, 286253, 53333, -12) >> >>,              \* ALP050 = 2.8625353333e-02
     << << Lit(0, 333407, 52782, -11),                    \* ALP001 = 3.3340752782e-01
           Lit(0, 112175, 28644, -11),                    \* ALP101 = 1.1217528644e-01
           Lit(1, 125106, 49515, -11),                    \* ALP201 = -1.2510649515e-01
           Lit(0, 163497, 60916, -12) >>,                 \* ALP301 = 1.6349760916e-02
        << Lit(1, 335402, 39802, -11),                    \* ALP011 = -3.3540239802e-01
           Lit(1, 175315, 40640, -11),                    \* ALP111 = -1.7531540640e-01
           Lit(0, 939768, 64981, -12) >>,                 \* ALP211 = 9.3976864981e-02
        << Lit(0, 184872, 52150, -11),                    \* ALP021 = 1.8487252150e-01
           Lit(0, 413078, 25959, -12) >>,                 \* ALP121 = 4.1307825959e-02
        << Lit(1, 559279, 35970, -12) >> >>,              \* ALP031 = -5.5927935970e-02
     << << Lit(1, 514107, 78748, -12),                    \* ALP002 = -5.1410778748e-02
           Lit(0, 532784, 13794, -13) >>,                 \* ALP102 = 5.3278413794e-03
        << Lit(0, 620999, 15132, -12) >> >>,              \* ALP012 = 6.2099915132e-02
     << << Lit(1, 949245, 51138, -13) >> >> >>            \* ALP003 = -9.4924551138e-03

\* BETijk is the coefficient of s^i t^j p~^k: bsq_BET[k + 1][j + 1][i + 1] (lines 135-146)
bsq_BET ==
  << << << Lit(0, 107832, 3594, -9),                      \* BET000 = 1.0783203594e+01
           Lit(1, 444520, 95908, -9),                     \* BET100 = -4.4452095908e+01
           Lit(0, 760487, 55820, -9),                     \* BET200 = 7.6048755820e+01
           Lit(1, 639442, 80668, -9),                     \* BET300 = -6.3944280668e+01
           Lit(0, 268904, 41098, -9),                     \* BET400 = 2.6890441098e+01
           Lit(1, 452216, 97773, -10) >>,                 \* BET500 = -4.5221697773e+00
        << Lit(1, 812193, 72432, -11),                    \* BET010 = -8.1219372432e-01
           Lit(0, 203466, 63041, -10),                    \* BET110 = 2.0346663041e+00
           Lit(1, 212328, 95170, -10),                    \* BET210 = -2.1232895170e+00
           Lit(0, 879941, 40485, -11),                    \* BET310 = 8.7994140485e-01
           Lit(1, 119396, 38360, -11) >>,                 \* BET410 = -1.1939638360e-01
        << Lit(0, 765742, 42289, -11),                    \* BET020 = 7.6574242289e-01
           Lit(1, 150198, 13020, -10),                    \* BET120 = -1.5019813020e+00
           Lit(0, 108724, 89522, -10),                    \* BET220 = 1.0872489522e+00
           Lit(1, 272334, 29080, -11) >>,                 \* BET320 = -2.7233429080e-01
        << Lit(1, 416151, 52308, -11),                    \* BET030 = -4.1615152308e-01
           Lit(0, 490613, 50869, -11),                    \* BET130 = 4.9061350869e-01
           Lit(1, 118477, 37788, -11) >>,                 \* BET230 = -1.1847737788e-01
        << Lit(0, 140730, 62708, -11),                    \* BET040 = 1.4073062708e-01
           Lit(1, 133279, 78879, -11) >>,                 \* BET140 = -1.3327978879e-01
        << Lit(0, 599298, 80134, -13) >> >>,              \* BET050 = 5.9929880134e-03
     << << Lit(1, 529378, 73009, -11),                    \* BET001 = -5.2937873009e-01
           Lit(0, 126341, 16779, -10),                    \* BET101 = 1.2634116779e+00
           Lit(1, 115473, 28025, -10),                    \* BET201 = -1.1547328025e+00
           Lit(0, 328708, 76279, -11) >>,                 \* BET301 = 3.2870876279e-01
        << Lit(1, 558244, 7214, -12),                     \* BET011 = -5.5824407214e-02
           Lit(0, 124519, 33313, -11),                    \* BET111 = 1.2451933313e-01
           Lit(1, 244095, 39932, -12) >>,                 \* BET211 = -2.4409539932e-02
        << Lit(0, 436231, 49752, -12),                    \* BET021 = 4.3623149752e-02
           Lit(1, 467679, 1790, -12) >>,                  \* BET121 = -4.6767901790e-02
        << Lit(1, 685232, 60060, -13) >> >>,              \* BET031 = -6.8523260060e-03
     << << Lit(1, 616189, 45251, -12),                    \* BET002 = -6.1618945251e-02
           Lit(0, 622555, 21644, -12) >>,                 \* BET102 = 6.2255521644e-02
        << Lit(1, 265141, 81169, -13) >> >>,              \* BET012 = -2.6514181169e-03
     << << Lit(1, 230259, 68587, -14) >> >> >>            \* BET003 = -2.3025968587e-04

\* the CHECK VALUES of the header comment, at SA = 30, CT = 10, p = 1000 (lines 37-42)
bsq_CHECK ==
  << Dec(0, 1027, 45140, -5),               \* rho = 1027.45140
     Dec(0, 1796, 46281, -9),               \* a   = 0.179646281
     Dec(0, 7655, 55368, -9),               \* b   = 0.765555368
     Dec(0, 4597, 63035, -8),               \* r0  = 4.59763035
     Dec(0, 1022, 85377, -5) >>             \* r   = 1022.85377

bsq_SAu == (Lit(0, 0, 40, 0).val (.) Lit(0, 35, 16504, -5).val) (/) Lit(0, 0, 35, 0).val

\* the salinity unit in place of the temperature unit
bsq_CTu_as_SAu == (Lit(0, 0, 40, 0).val (.) Lit(0, 35, 16504, -5).val) (/) Lit(0, 0, 35, 0).val

bsq_CTu == Lit(0, 0, 40, 0).val

bsq_Zu == Lit(0, 0, 1, 4).val

\* the salinity offset 24 in place of 32
bsq_deltaS_24 == Lit(0, 0, 24, 0).val

bsq_deltaS == Lit(0, 0, 32, 0).val

\* the salinity clamped at -deltaS: max(SA + deltaS, 0) under the square root
bsq_ss_clamped(SA) ==
  LET x == (SA (+) bsq_deltaS) (/) bsq_SAu
      clamp(f) == IF f.k = "fin" /\ f.s = 1 THEN FZero(0) ELSE f
  IN  NSqrt(IF IsRaise(x) THEN x
            ELSE IF IsArray(x) THEN NdArray([i \in 1..Len(x.v) |-> clamp(x.v[i])])
            ELSE [x EXCEPT !.v = clamp(x.v)])

\* line 61
bsq_ss(SA) ==
  NSqrt((SA (+) bsq_deltaS) (/) bsq_SAu)

\* line 62
bsq_tt(CT) ==
  CT (/) bsq_CTu

\* line 63
bsq_pp(p) ==
  p (/) bsq_Zu

\* the Horner form without its last multiplication by pp: R00 a constant term
bsq_r0_constant_term(pp) ==
  ( ( ( (C0(bsq_R0, 5) (.) pp (+) C0(bsq_R0, 4)) (.) pp (+) C0(bsq_R0, 3)) (.) pp (+)
      C0(bsq_R0, 2) ) (.) pp (+)
    C0(bsq_R0, 1) ) (.) pp (+)
  C0(bsq_R0, 0)

\* line 68
bsq_r0(pp) ==
  ( ( ( ((C0(bsq_R0, 5) (.) pp (+) C0(bsq_R0, 4)) (.) pp (+) C0(bsq_R0, 3)) (.) pp (+)
        C0(bsq_R0, 2) ) (.)
      pp (+)
      C0(bsq_R0, 1) ) (.)
    pp (+)
    C0(bsq_R0, 0) ) (.)
  pp

\* lines 89-101
bsq_r(ss, tt, pp) ==
  LET rz3 ==
        C(bsq_R, 0, 1, 3) (.) tt (+) C(bsq_R, 1, 0, 3) (.) ss (+) C(bsq_R, 0, 0, 3)
      rz2 ==
        (C(bsq_R, 0, 2, 2) (.) tt (+) C(bsq_R, 1, 1, 2) (.) ss (+) C(bsq_R, 0, 1, 2)) (.)
        tt (+)
        (C(bsq_R, 2, 0, 2) (.) ss (+) C(bsq_R, 1, 0, 2)) (.) ss (+)
        C(bsq_R, 0, 0, 2)
      rz1 ==
        ( ( ( C(bsq_R, 0, 4, 1) (.) tt (+)
              C(bsq_R, 1, 3, 1) (.) ss (+)
              C(bsq_R, 0, 3, 1) ) (.)
            tt (+)
            (C(bsq_R, 2, 2, 1) (.) ss (+) C(bsq_R, 1, 2, 1)) (.) ss (+)
            C(bsq_R, 0, 2, 1) ) (.)
          tt (+)
          ( (C(bsq_R, 3, 1, 1) (.) ss (+) C(bsq_R, 2, 1, 1)) (.) ss (+)
            C(bsq_R, 1, 1, 1) ) (.)
          ss (+)
          C(bsq_R, 0, 1, 1) ) (.)
        tt (+)
        ( ( (C(bsq_R, 4, 0, 1) (.) ss (+) C(bsq_R, 3, 0, 1)) (.) ss (+)
            C(bsq_R, 2, 0, 1) ) (.)
          ss (+)
          C(bsq_R, 1, 0, 1) ) (.)
        ss (+)
        C(bsq_R, 0, 0, 1)
      rz0 ==
        ( ( ( ( ( C(bsq_R, 0, 6, 0) (.) tt (+)
                  C(bsq_R, 1, 5, 0) (.) ss (+)
                  C(bsq_R, 0, 5, 0) ) (.)
                tt (+)
                (C(bsq_R, 2, 4, 0) (.) ss (+) C(bsq_R, 1, 4, 0)) (.) ss (+)
                C(bsq_R, 0, 4, 0) ) (.)
              tt (+)
              ( (C(bsq_R, 3, 3, 0) (.) ss (+) C(bsq_R, 2, 3, 0)) (.) ss (+)
                C(bsq_R, 1, 3, 0) ) (.)
              ss (+)
              C(bsq_R, 0, 3, 0) ) (.)
            tt (+)
            ( ( (C(bsq_R, 4, 2, 0) (.) ss (+) C(bsq_R, 3, 2, 0)) (.) ss (+)
                C(bsq_R, 2, 2, 0) ) (.)
              ss (+)
              C(bsq_R, 1, 2, 0) ) (.)
            ss (+)
            C(bsq_R, 0, 2, 0) ) (.)
          tt (+)
          ( ( ( (C(bsq_R, 5, 1, 0) (.) ss (+) C(bsq_R, 4, 1, 0)) (.) ss (+)
                C(bsq_R, 3, 1, 0) ) (.)
              ss (+)
              C(bsq_R, 2, 1, 0) ) (.)
            ss (+)
            C(bsq_R, 1, 1, 0) ) (.)
          ss (+)
          C(bsq_R, 0, 1, 0) ) (.)
        tt (+)
        ( ( ( ( (C(bsq_R, 6, 0, 0) (.) ss (+) C(bsq_R, 5, 0, 0)) (.) ss (+)
                C(bsq_R, 4, 0, 0) ) (.)
              ss (+)
              C(bsq_R, 3, 0, 0) ) (.)
            ss (+)
            C(bsq_R, 2, 0, 0) ) (.)
          ss (+)
          C(bsq_R, 1, 0, 0) ) (.)
        ss (+)
        C(bsq_R, 0, 0, 0)
  IN  ((rz3 (.) pp (+) rz2) (.) pp (+) rz1) (.) pp (+) rz0

\* the anomaly alone, the reference profile left out
bsq_rho_anomaly_only(r, r0) ==
  r

\* line 104
bsq_rho(r, r0) ==
  r (+) r0

\* lines 120-131
bsq_a(ss, tt, pp) ==
  ( ( C(bsq_ALP, 0, 0, 3) (.) pp (+)
      C(bsq_ALP, 0, 1, 2) (.) tt (+)
      C(bsq_ALP, 1, 0, 2) (.) ss (+)
      C(bsq_ALP, 0, 0, 2) ) (.)
    pp (+)
    ( ( C(bsq_ALP, 0, 3, 1) (.) tt (+)
        C(bsq_ALP, 1, 2, 1) (.) ss (+)
        C(bsq_ALP, 0, 2, 1) ) (.)
      tt (+)
      (C(bsq_ALP, 2, 1, 1) (.) ss (+) C(bsq_ALP, 1, 1, 1)) (.) ss (+)
      C(bsq_ALP, 0, 1, 1) ) (.)
    tt (+)
    ( (C(bsq_ALP, 3, 0, 1) (.) ss (+) C(bsq_ALP, 2, 0, 1)) (.) ss (+)
      C(bsq_ALP, 1, 0, 1) ) (.)
    ss (+)
    C(bsq_ALP, 0, 0, 1) ) (.)
  pp (+)
  ( ( ( ( C(bsq_ALP, 0, 5, 0) (.) tt (+)
          C(bsq_ALP, 1, 4, 0) (.) ss (+)
          C(bsq_ALP, 0, 4, 0) ) (.)
        tt (+)
        (C(bsq_ALP, 2, 3, 0) (.) ss (+) C(bsq_ALP, 1, 3, 0)) (.) ss (+)
        C(bsq_ALP, 0, 3, 0) ) (.)
      tt (+)
      ( (C(bsq_ALP, 3, 2, 0) (.) ss (+) C(bsq_ALP, 2, 2, 0)) (.) ss (+)
        C(bsq_ALP, 1, 2, 0) ) (.)
      ss (+)
      C(bsq_ALP, 0, 2, 0) ) (.)
    tt (+)
    ( ( (C(bsq_ALP, 4, 1, 0) (.) ss (+) C(bsq_ALP, 3, 1, 0)) (.) ss (+)
        C(bsq_ALP, 2, 1, 0) ) (.)
      ss (+)
      C(bsq_ALP, 1, 1, 0) ) (.)
    ss (+)
    C(bsq_ALP, 0, 1, 0) ) (.)
  tt (+)
  ( ( ( (C(bsq_ALP, 5, 0, 0) (.) ss (+) C(bsq_ALP, 4, 0, 0)) (.) ss (+)
        C(bsq_ALP, 3, 0, 0) ) (.)
      ss (+)
      C(bsq_ALP, 2, 0, 0) ) (.)
    ss (+)
    C(bsq_ALP, 1, 0, 0) ) (.)
  ss (+)
  C(bsq_ALP, 0, 0, 0)

\* lines 148-159
bsq_b_raw(ss, tt, pp) ==
  ( ( C(bsq_BET, 0, 0, 3) (.) pp (+)
      C(bsq_BET, 0, 1, 2) (.) tt (+)
      C(bsq_BET, 1, 0, 2) (.) ss (+)
      C(bsq_BET, 0, 0, 2) ) (.)
    pp (+)
    ( ( C(bsq_BET, 0, 3, 1) (.) tt (+)
        C(bsq_BET, 1, 2, 1) (.) ss (+)
        C(bsq_BET, 0, 2, 1) ) (.)
      tt (+)
      (C(bsq_BET, 2, 1, 1) (.) ss (+) C(bsq_BET, 1, 1, 1)) (.) ss (+)
      C(bsq_BET, 0, 1, 1) ) (.)
    tt (+)
    ( (C(bsq_BET, 3, 0, 1) (.) ss (+) C(bsq_BET, 2, 0, 1)) (.) ss (+)
      C(bsq_BET, 1, 0, 1) ) (.)
    ss (+)
    C(bsq_BET, 0, 0, 1) ) (.)
  pp (+)
  ( ( ( ( C(bsq_BET, 0, 5, 0) (.) tt (+)
          C(bsq_BET, 1, 4, 0) (.) ss (+)
          C(bsq_BET, 0, 4, 0) ) (.)
        tt (+)
        (C(bsq_BET, 2, 3, 0) (.) ss (+) C(bsq_BET, 1, 3, 0)) (.) ss (+)
        C(bsq_BET, 0, 3, 0) ) (.)
      tt (+)
      ( (C(bsq_BET, 3, 2, 0) (.) ss (+) C(bsq_BET, 2, 2, 0)) (.) ss (+)
        C(bsq_BET, 1, 2, 0) ) (.)
      ss (+)
      C(bsq_BET, 0, 2, 0) ) (.)
    tt (+)
    ( ( (C(bsq_BET, 4, 1, 0) (.) ss (+) C(bsq_BET, 3, 1, 0)) (.) ss (+)
        C(bsq_BET, 2, 1, 0) ) (.)
      ss (+)
      C(bsq_BET, 1, 1, 0) ) (.)
    ss (+)
    C(bsq_BET, 0, 1, 0) ) (.)
  tt (+)
  ( ( ( (C(bsq_BET, 5, 0, 0) (.) ss (+) C(bsq_BET, 4, 0, 0)) (.) ss (+)
        C(bsq_BET, 3, 0, 0) ) (.)
      ss (+)
      C(bsq_BET, 2, 0, 0) ) (.)
    ss (+)
    C(bsq_BET, 1, 0, 0) ) (.)
  ss (+)
  C(bsq_BET, 0, 0, 0)

\* line 161
bsq_b(ss, b) ==
  b (/) ss

\* the arguments broadcast to their common shape before anything is computed
\* (p + 0 * (SA + CT) has the shape of the three together and the values of p)
polyTEOS10_bsq_broadcast_first(SA, CT, p) ==
  LET ss == bsq_ss(SA)
      tt == bsq_tt(CT)
      pp == bsq_pp(p (+) Lit(0, 0, 0, 0).val (.) (SA (+) CT))
      r0 == bsq_r0(pp)
      r == bsq_r(ss, tt, pp)
      rho == bsq_rho(r, r0)
      a == bsq_a(ss, tt, pp)
      b_raw == bsq_b_raw(ss, tt, pp)
      b == bsq_b(ss, b_raw)
  IN  Return(<< ss, tt, pp, r0, r, rho, a, b_raw, b >>,
             << rho, a, b, r0, r >>)

\* lines 57-163
polyTEOS10_bsq(SA, CT, p) ==
  LET ss == bsq_ss(SA)
      tt == bsq_tt(CT)
      pp == bsq_pp(p)
      r0 == bsq_r0(pp)
      r == bsq_r(ss, tt, pp)
      rho == bsq_rho(r, r0)
      a == bsq_a(ss, tt, pp)
      b_raw == bsq_b_raw(ss, tt, pp)
      b == bsq_b(ss, b_raw)
  IN  Return(<< ss, tt, pp, r0, r, rho, a, b_raw, b >>,
             << rho, a, b, r0, r >>)

(***************************************************************************)
(* polyTEOS10_stif, lines 218-321                                          *)
(***************************************************************************)
\* R1k is the coefficient of p~^(k+1) (the constant term 1 is in the expression): stif_R0[k + 1] (lines 227-228)
stif_R0 ==
  << Lit(0, 452380, 1132, -12),             \* R10 = 4.5238001132e-02
     Lit(1, 506914, 57704, -13),            \* R11 = -5.0691457704e-03
     Lit(0, 219908, 65986, -14),            \* R12 = 2.1990865986e-04
     Lit(0, 625877, 20090, -15),            \* R13 = 6.2587720090e-05
     Lit(0, 151947, 95322, -15),            \* R14 = 1.5194795322e-05
     Lit(1, 167775, 31159, -16) >>          \* R15 = -1.6777531159e-06

\* Rijk is the coefficient of s^i t^j p~^k: stif_R[k + 1][j + 1][i + 1] (lines 232-249)
stif_R ==
  << << << Lit(0, 801859, 69881, -8),                     \* R000 = 8.0185969881e+02
           Lit(0, 866943, 99997, -8),                     \* R100 = 8.6694399997e+02
           Lit(1, 178698, 86805, -7),                     \* R200 = -1.7869886805e+03
           Lit(0, 203815, 48497, -7),                     \* R300 = 2.0381548497e+03
           Lit(1, 128532, 7957, -7),                      \* R400 = -1.2853207957e+03
           Lit(0, 432409, 96619, -8),                     \* R500 = 4.3240996619e+02
           Lit(1, 605976, 95001, -9) >>,                  \* R600 = -6.0597695001e+01
        << Lit(0, 260189, 38392, -9),                     \* R010 = 2.6018938392e+01
           Lit(1, 653497, 79146, -9),                     \* R110 = -6.5349779146e+01
           Lit(0, 819383, 1569, -9),                      \* R210 = 8.1938301569e+01
           Lit(1, 570750, 42739, -9),                     \* R310 = -5.7075042739e+01
           Lit(0, 177789, 70855, -9),                     \* R410 = 1.7778970855e+01
           Lit(1, 193852, 69480, -10) >>,                 \* R510 = -1.9385269480e+00
        << Lit(1, 370475, 86837, -9),                     \* R020 = -3.7047586837e+01
           Lit(0, 614696, 77558, -9),                     \* R120 = 6.1469677558e+01
           Lit(1, 602735, 64480, -9),                     \* R220 = -6.0273564480e+01
           Lit(0, 290861, 47388, -9),                     \* R320 = 2.9086147388e+01
           Lit(1, 546411, 45446, -10) >>,                 \* R420 = -5.4641145446e+00
        << Lit(0, 216453, 70860, -9),                     \* R030 = 2.1645370860e+01
           Lit(1, 334152, 15649, -9),                     \* R130 = -3.3415215649e+01
           Lit(0, 196941, 19706, -9),                     \* R230 = 1.9694119706e+01
           Lit(1, 317104, 94147, -10) >>,                 \* R330 = -3.1710494147e+00
        << Lit(1, 835872, 58634, -10),                    \* R040 = -8.3587258634e+00
           Lit(0, 113018, 73278, -9),                     \* R140 = 1.1301873278e+01
           Lit(1, 534949, 3247, -10) >>,                  \* R240 = -5.3494903247e+00
        << Lit(0, 542584, 99460, -11),                    \* R050 = 5.4258499460e-01
           Lit(0, 479640, 98705, -11) >>,                 \* R150 = 4.7964098705e-01
        << Lit(1, 190989, 81559, -11) >> >>,              \* R060 = -1.9098981559e-01
     << << Lit(0, 219892, 66031, -9),                     \* R001 = 2.1989266031e+01
           Lit(1, 420437, 85414, -9),                     \* R101 = -4.2043785414e+01
           Lit(0, 485651, 83521, -9),                     \* R201 = 4.8565183521e+01
           Lit(1, 304738, 75108, -9),                     \* R301 = -3.0473875108e+01
           Lit(0, 650257, 96369, -10) >>,                 \* R401 = 6.5025796369e+00
        << Lit(1, 137315, 93003, -9),                     \* R011 = -1.3731593003e+01
           Lit(1, 436672, 63842, -10),                    \* R111 = -4.3667263842e+00
           Lit(0, 528992, 98884, -10),                    \* R211 = 5.2899298884e+00
           Lit(1, 713238, 26203, -11) >>,                 \* R311 = -7.1323826203e-01
        << Lit(0, 748433, 25711, -10),                    \* R021 = 7.4843325711e+00
           Lit(0, 314429, 96192, -10),                    \* R121 = 3.1442996192e+00
           Lit(1, 181417, 71987, -10) >>,                 \* R221 = -1.8141771987e+00
        << Lit(1, 260101, 82316, -10),                    \* R031 = -2.6010182316e+00
           Lit(1, 498667, 39215, -11) >>,                 \* R131 = -4.9866739215e-01
        << Lit(0, 558823, 64387, -11) >> >>,              \* R041 = 5.5882364387e-01
     << << Lit(0, 111441, 25393, -10),                    \* R002 = 1.1144125393e+00
           Lit(1, 454135, 2768, -10),                     \* R102 = -4.5413502768e+00
           Lit(0, 272421, 21539, -10) >>,                 \* R202 = 2.7242121539e+00
        << Lit(0, 285084, 46713, -10),                    \* R012 = 2.8508446713e+00
           Lit(1, 444713, 61300, -11) >>,                 \* R112 = -4.4471361300e-01
        << Lit(1, 150593, 2816, -10) >> >>,               \* R022 = -1.5059302816e+00
     << << Lit(0, 198170, 79368, -11),                    \* R003 = 1.9817079368e-01
           Lit(1, 179053, 69937, -11) >>,                 \* R103 = -1.7905369937e-01
        << Lit(0, 252541, 65600, -11) >> >> >>            \* R013 = 2.5254165600e-01

\* ALPijk is the coefficient of s^i t^j p~^k: stif_ALP[k + 1][j + 1][i + 1] (lines 268-279)
stif_ALP ==
  << << << Lit(1, 650473, 45980, -11),                    \* ALP000 = -6.5047345980e-01
           Lit(0, 163374, 44787, -10),                    \* ALP100 = 1.6337444787e+00
           Lit(1, 204845, 75392, -10),                    \* ALP200 = -2.0484575392e+00
           Lit(0, 142687, 60685, -10),                    \* ALP300 = 1.4268760685e+00
           Lit(1, 444474, 27136, -11),                    \* ALP400 = -4.4447427136e-01
           Lit(0, 484631, 73700, -12) >>,                 \* ALP500 = 4.8463173700e-02
        << Lit(0, 185237, 93418, -10),                    \* ALP010 = 1.8523793418e+00
           Lit(1, 307348, 38779, -10),                    \* ALP110 = -3.0734838779e+00
           Lit(0, 301367, 82240, -10),                    \* ALP210 = 3.0136782240e+00
           Lit(1, 145430, 73694, -10),                    \* ALP310 = -1.4543073694e+00
           Lit(0, 273205, 72723, -11) >>,                 \* ALP410 = 2.7320572723e-01
        << Lit(1, 162340, 28145, -10),                    \* ALP020 = -1.6234028145e+00
           Lit(0, 250614, 11737, -10),                    \* ALP120 = 2.5061411737e+00
           Lit(1, 147705, 89780, -10),                    \* ALP220 = -1.4770589780e+00
           Lit(0, 237828, 70611, -11) >>,                 \* ALP320 = 2.3782870611e-01
        << Lit(0, 835872, 58634, -11),                    \* ALP030 = 8.3587258634e-01
           Lit(1, 113018, 73278, -10),                    \* ALP130 = -1.1301873278e+00
           Lit(0, 534949, 3247, -11) >>,                  \* ALP230 = 5.3494903247e-01
        << Lit(1, 678231, 24325, -12),                    \* ALP040 = -6.7823124325e-02
           Lit(1, 599551, 23381, -12) >>,                 \* ALP140 = -5.9955123381e-02
        << Lit(0, 286484, 72338, -12) >> >>,              \* ALP050 = 2.8648472338e-02
     << << Lit(0, 343289, 82507, -11),                    \* ALP001 = 3.4328982507e-01
           Lit(0, 109168, 15960, -11),                    \* ALP101 = 1.0916815960e-01
           Lit(1, 132248, 24721, -11),                    \* ALP201 = -1.3224824721e-01
           Lit(0, 178309, 56551, -12) >>,                 \* ALP301 = 1.7830956551e-02
        << Lit(1, 374216, 62855, -11),                    \* ALP011 = -3.7421662855e-01
           Lit(1, 157214, 98096, -11),                    \* ALP111 = -1.5721498096e-01
           Lit(0, 907088, 59933, -12) >>,                 \* ALP211 = 9.0708859933e-02
        << Lit(0, 195076, 36737, -11),                    \* ALP021 = 1.9507636737e-01
           Lit(0, 374000, 54411, -12) >>,                 \* ALP121 = 3.7400054411e-02
        << Lit(1, 558823, 64387, -12) >> >>,              \* ALP031 = -5.5882364387e-02
     << << Lit(1, 712711, 16782, -12),                    \* ALP002 = -7.1271116782e-02
           Lit(0, 111178, 40325, -12) >>,                 \* ALP102 = 1.1117840325e-02
        << Lit(0, 752965, 14078, -12) >> >>,              \* ALP012 = 7.5296514078e-02
     << << Lit(1, 631354, 13999, -13) >> >> >>            \* ALP003 = -6.3135413999e-03

\* BETijk is the coefficient of s^i t^j p~^k: stif_BET[k + 1][j + 1][i + 1] (lines 295-306)
stif_BET ==
  << << << Lit(0, 107859, 39671, -9),                     \* BET000 = 1.0785939671e+01
           Lit(1, 444650, 45269, -9),                     \* BET100 = -4.4465045269e+01
           Lit(0, 760720, 94337, -9),                     \* BET200 = 7.6072094337e+01
           Lit(1, 639644, 20131, -9),                     \* BET300 = -6.3964420131e+01
           Lit(0, 268987, 83594, -9),                     \* BET400 = 2.6898783594e+01
           Lit(1, 452349, 68986, -10) >>,                 \* BET500 = -4.5234968986e+00
        << Lit(1, 813038, 41476, -11),                    \* BET010 = -8.1303841476e-01
           Lit(0, 203884, 35182, -10),                    \* BET110 = 2.0388435182e+00
           Lit(1, 213026, 89715, -10),                    \* BET210 = -2.1302689715e+00
           Lit(0, 884776, 44261, -11),                    \* BET310 = 8.8477644261e-01
           Lit(1, 120589, 30400, -11) >>,                 \* BET410 = -1.2058930400e-01
        << Lit(0, 764764, 77580, -11),                    \* BET020 = 7.6476477580e-01
           Lit(1, 149976, 70675, -10),                    \* BET120 = -1.4997670675e+00
           Lit(0, 108561, 14040, -10),                    \* BET220 = 1.0856114040e+00
           Lit(1, 271923, 49143, -11) >>,                 \* BET320 = -2.7192349143e-01
        << Lit(1, 415729, 85119, -11),                    \* BET030 = -4.1572985119e-01
           Lit(0, 490042, 23351, -11),                    \* BET130 = 4.9004223351e-01
           Lit(1, 118356, 25260, -11) >>,                 \* BET230 = -1.1835625260e-01
        << Lit(0, 140610, 37779, -11),                    \* BET040 = 1.4061037779e-01
           Lit(1, 133109, 58936, -11) >>,                 \* BET140 = -1.3310958936e-01
        << Lit(0, 596737, 36141, -13) >> >>,              \* BET050 = 5.9673736141e-03
     << << Lit(1, 523080, 76768, -11),                    \* BET001 = -5.2308076768e-01
           Lit(0, 120843, 13165, -10),                    \* BET101 = 1.2084313165e+00
           Lit(1, 113740, 69553, -10),                    \* BET201 = -1.1374069553e+00
           Lit(0, 323603, 5476, -11) >>,                  \* BET301 = 3.2360305476e-01
        << Lit(1, 543279, 468, -12),                      \* BET011 = -5.4327900468e-02
           Lit(0, 131627, 56682, -11),                    \* BET111 = 1.3162756682e-01
           Lit(1, 266209, 5846, -12) >>,                  \* BET211 = -2.6620905846e-02
        << Lit(0, 391192, 81064, -12),                    \* BET021 = 3.9119281064e-02
           Lit(1, 451415, 68126, -12) >>,                 \* BET121 = -4.5141568126e-02
        << Lit(1, 620408, 74705, -13) >> >>,              \* BET031 = -6.2040874705e-03
     << << Lit(1, 565004, 54603, -12),                    \* BET002 = -5.6500454603e-02
           Lit(0, 677856, 65385, -12) >>,                 \* BET102 = 6.7785665385e-02
        << Lit(1, 553283, 4955, -13) >> >>,               \* BET012 = -5.5328304955e-03
     << << Lit(1, 222766, 68383, -13) >> >> >>            \* BET003 = -2.2276668383e-03

\* the CHECK VALUES of the header comment, at SA = 30, CT = 10, p = 1000 (lines 198-203)
stif_CHECK ==
  << Dec(0, 1027, 45140, -5),               \* rho = 1027.45140
     Dec(0, 1796, 49406, -9),               \* a   = 0.179649406
     Dec(0, 7655, 54495, -9),               \* b   = 0.765554495
     Dec(0, 1004, 47333, -8),               \* r1  = 1.00447333
     Dec(0, 1022, 87574, -5) >>             \* rdot= 1022.87574

stif_SAu == (Lit(0, 0, 40, 0).val (.) Lit(0, 35, 16504, -5).val) (/) Lit(0, 0, 35, 0).val

stif_CTu == Lit(0, 0, 40, 0).val

stif_Zu == Lit(0, 0, 1, 4).val

stif_deltaS == Lit(0, 0, 32, 0).val

\* line 222
stif_ss(SA) ==
  NSqrt((SA (+) stif_deltaS) (/) stif_SAu)

\* line 223
stif_tt(CT) ==
  CT (/) stif_CTu

\* line 224
stif_pp(p) ==
  p (/) stif_Zu

\* line 229
stif_r1(pp) ==
  ( ( ( ((C0(stif_R0, 5) (.) pp (+) C0(stif_R0, 4)) (.) pp (+) C0(stif_R0, 3)) (.) pp (+)
        C0(stif_R0, 2) ) (.)
      pp (+)
      C0(stif_R0, 1) ) (.)
    pp (+)
    C0(stif_R0, 0) ) (.)
  pp (+)
  Lit(0, 0, 1, 0).val

\* lines 250-262
stif_rdot(ss, tt, pp) ==
  LET rz3 ==
        C(stif_R, 0, 1, 3) (.) tt (+) C(stif_R, 1, 0, 3) (.) ss (+) C(stif_R, 0, 0, 3)
      rz2 ==
        (C(stif_R, 0, 2, 2) (.) tt (+) C(stif_R, 1, 1, 2) (.) ss (+) C(stif_R, 0, 1, 2)) (.)
        tt (+)
        (C(stif_R, 2, 0, 2) (.) ss (+) C(stif_R, 1, 0, 2)) (.) ss (+)
        C(stif_R, 0, 0, 2)
      rz1 ==
        ( ( ( C(stif_R, 0, 4, 1) (.) tt (+)
              C(stif_R, 1, 3, 1) (.) ss (+)
              C(stif_R, 0, 3, 1) ) (.)
            tt (+)
            (C(stif_R, 2, 2, 1) (.) ss (+) C(stif_R, 1, 2, 1)) (.) ss (+)
            C(stif_R, 0, 2, 1) ) (.)
          tt (+)
          ( (C(stif_R, 3, 1, 1) (.) ss (+) C(stif_R, 2, 1, 1)) (.) ss (+)
            C(stif_R, 1, 1, 1) ) (.)
          ss (+)
          C(stif_R, 0, 1, 1) ) (.)
        tt (+)
        ( ( (C(stif_R, 4, 0, 1) (.) ss (+) C(stif_R, 3, 0, 1)) (.) ss (+)
            C(stif_R, 2, 0, 1) ) (.)
          ss (+)
          C(stif_R, 1, 0, 1) ) (.)
        ss (+)
        C(stif_R, 0, 0, 1)
      rz0 ==
        ( ( ( ( ( C(stif_R, 0, 6, 0) (.) tt (+)
                  C(stif_R, 1, 5, 0) (.) ss (+)
                  C(stif_R, 0, 5, 0) ) (.)
                tt (+)
                (C(stif_R, 2, 4, 0) (.) ss (+) C(stif_R, 1, 4, 0)) (.) ss (+)
                C(stif_R, 0, 4, 0) ) (.)
              tt (+)
              ( (C(stif_R, 3, 3, 0) (.) ss (+) C(stif_R, 2, 3, 0)) (.) ss (+)
                C(stif_R, 1, 3, 0) ) (.)
              ss (+)
              C(stif_R, 0, 3, 0) ) (.)
            tt (+)
            ( ( (C(stif_R, 4, 2, 0) (.) ss (+) C(stif_R, 3, 2, 0)) (.) ss (+)
                C(stif_R, 2, 2, 0) ) (.)
              ss (+)
              C(stif_R, 1, 2, 0) ) (.)
            ss (+)
            C(stif_R, 0, 2, 0) ) (.)
          tt (+)
          ( ( ( (C(stif_R, 5, 1, 0) (.) ss (+) C(stif_R, 4, 1, 0)) (.) ss (+)
                C(stif_R, 3, 1, 0) ) (.)
              ss (+)
              C(stif_R, 2, 1, 0) ) (.)
            ss (+)
            C(stif_R, 1, 1, 0) ) (.)
          ss (+)
          C(stif_R, 0, 1, 0) ) (.)
        tt (+)
        ( ( ( ( (C(stif_R, 6, 0, 0) (.) ss (+) C(stif_R, 5, 0, 0)) (.) ss (+)
                C(stif_R, 4, 0, 0) ) (.)
              ss (+)
              C(stif_R, 3, 0, 0) ) (.)
            ss (+)
            C(stif_R, 2, 0, 0) ) (.)
          ss (+)
          C(stif_R, 1, 0, 0) ) (.)
        ss (+)
        C(stif_R, 0, 0, 0)
  IN  ((rz3 (.) pp (+) rz2) (.) pp (+) rz1) (.) pp (+) rz0

\* the additive decomposition of polyTEOS10_bsq in place of the product
stif_rho_additive(r1, rdot) ==
  r1 (+) rdot

\* line 265
stif_rho(r1, rdot) ==
  r1 (.) rdot

\* lines 281-292
stif_a_raw(ss, tt, pp) ==
  ( ( C(stif_ALP, 0, 0, 3) (.) pp (+)
      C(stif_ALP, 0, 1, 2) (.) tt (+)
      C(stif_ALP, 1, 0, 2) (.) ss (+)
      C(stif_ALP, 0, 0, 2) ) (.)
    pp (+)
    ( ( C(stif_ALP, 0, 3, 1) (.) tt (+)
        C(stif_ALP, 1, 2, 1) (.) ss (+)
        C(stif_ALP, 0, 2, 1) ) (.)
      tt (+)
      (C(stif_ALP, 2, 1, 1) (.) ss (+) C(stif_ALP, 1, 1, 1)) (.) ss (+)
      C(stif_ALP, 0, 1, 1) ) (.)
    tt (+)
    ( (C(stif_ALP, 3, 0, 1) (.) ss (+) C(stif_ALP, 2, 0, 1)) (.) ss (+)
      C(stif_ALP, 1, 0, 1) ) (.)
    ss (+)
    C(stif_ALP, 0, 0, 1) ) (.)
  pp (+)
  ( ( ( ( C(stif_ALP, 0, 5, 0) (.) tt (+)
          C(stif_ALP, 1, 4, 0) (.) ss (+)
          C(stif_ALP, 0, 4, 0) ) (.)
        tt (+)
        (C(stif_ALP, 2, 3, 0) (.) ss (+) C(stif_ALP, 1, 3, 0)) (.) ss (+)
        C(stif_ALP, 0, 3, 0) ) (.)
      tt (+)
      ( (C(stif_ALP, 3, 2, 0) (.) ss (+) C(stif_ALP, 2, 2, 0)) (.) ss (+)
        C(stif_ALP, 1, 2, 0) ) (.)
      ss (+)
      C(stif_ALP, 0, 2, 0) ) (.)
    tt (+)
    ( ( (C(stif_ALP, 4, 1, 0) (.) ss (+) C(stif_ALP, 3, 1, 0)) (.) ss (+)
        C(stif_ALP, 2, 1, 0) ) (.)
      ss (+)
      C(stif_ALP, 1, 1, 0) ) (.)
    ss (+)
    C(stif_ALP, 0, 1, 0) ) (.)
  tt (+)
  ( ( ( (C(stif_ALP, 5, 0, 0) (.) ss (+) C(stif_ALP, 4, 0, 0)) (.) ss (+)
        C(stif_ALP, 3, 0, 0) ) (.)
      ss (+)
      C(stif_ALP, 2, 0, 0) ) (.)
    ss (+)
    C(stif_ALP, 1, 0, 0) ) (.)
  ss (+)
  C(stif_ALP, 0, 0, 0)

\* the polynomial alone, as in polyTEOS10_bsq: the factor r1 left out
stif_a_unscaled(ss, tt, pp, r1) ==
  stif_a_raw(ss, tt, pp)

\* lines 280-292
stif_a(ss, tt, pp, r1) ==
  r1 (.) stif_a_raw(ss, tt, pp)

\* lines 307-318
stif_b_raw(ss, tt, pp) ==
  ( ( C(stif_BET, 0, 0, 3) (.) pp (+)
      C(stif_BET, 0, 1, 2) (.) tt (+)
      C(stif_BET, 1, 0, 2) (.) ss (+)
      C(stif_BET, 0, 0, 2) ) (.)
    pp (+)
    ( ( C(stif_BET, 0, 3, 1) (.) tt (+)
        C(stif_BET, 1, 2, 1) (.) ss (+)
        C(stif_BET, 0, 2, 1) ) (.)
      tt (+)
      (C(stif_BET, 2, 1, 1) (.) ss (+) C(stif_BET, 1, 1, 1)) (.) ss (+)
      C(stif_BET, 0, 1, 1) ) (.)
    tt (+)
    ( (C(stif_BET, 3, 0, 1) (.) ss (+) C(stif_BET, 2, 0, 1)) (.) ss (+)
      C(stif_BET, 1, 0, 1) ) (.)
    ss (+)
    C(stif_BET, 0, 0, 1) ) (.)
  pp (+)
  ( ( ( ( C(stif_BET, 0, 5, 0) (.) tt (+)
          C(stif_BET, 1, 4, 0) (.) ss (+)
          C(stif_BET, 0, 4, 0) ) (.)
        tt (+)
        (C(stif_BET, 2, 3, 0) (.) ss (+) C(stif_BET, 1, 3, 0)) (.) ss (+)
        C(stif_BET, 0, 3, 0) ) (.)
      tt (+)
      ( (C(stif_BET, 3, 2, 0) (.) ss (+) C(stif_BET, 2, 2, 0)) (.) ss (+)
        C(stif_BET, 1, 2, 0) ) (.)
      ss (+)
      C(stif_BET, 0, 2, 0) ) (.)
    tt (+)
    ( ( (C(stif_BET, 4, 1, 0) (.) ss (+) C(stif_BET, 3, 1, 0)) (.) ss (+)
        C(stif_BET, 2, 1, 0) ) (.)
      ss (+)
      C(stif_BET, 1, 1, 0) ) (.)
    ss (+)
    C(stif_BET, 0, 1, 0) ) (.)
  tt (+)
  ( ( ( (C(stif_BET, 5, 0, 0) (.) ss (+) C(stif_BET, 4, 0, 0)) (.) ss (+)
        C(stif_BET, 3, 0, 0) ) (.)
      ss (+)
      C(stif_BET, 2, 0, 0) ) (.)
    ss (+)
    C(stif_BET, 1, 0, 0) ) (.)
  ss (+)
  C(stif_BET, 0, 0, 0)

\* line 319
stif_b(ss, b, r1) ==
  (b (.) r1) (/) ss

\* the reference ratio taken at tt in place of pp
polyTEOS10_stif_r1_of_tt(SA, CT, p) ==
  LET ss == stif_ss(SA)
      tt == stif_tt(CT)
      pp == stif_pp(p)
      r1 == stif_r1(tt)
      rdot == stif_rdot(ss, tt, pp)
      rho == stif_rho(r1, rdot)
      a == stif_a(ss, tt, pp, r1)
      b_raw == stif_b_raw(ss, tt, pp)
      b == stif_b(ss, b_raw, r1)
  IN  Return(<< ss, tt, pp, r1, rdot, rho, a, b_raw, b >>,
             << rho, a, b, r1, rdot >>)

\* lines 218-321
polyTEOS10_stif(SA, CT, p) ==
  LET ss == stif_ss(SA)
      tt == stif_tt(CT)
      pp == stif_pp(p)
      r1 == stif_r1(pp)
      rdot == stif_rdot(ss, tt, pp)
      rho == stif_rho(r1, rdot)
      a == stif_a(ss, tt, pp, r1)
      b_raw == stif_b_raw(ss, tt, pp)
      b == stif_b(ss, b_raw, r1)
  IN  Return(<< ss, tt, pp, r1, rdot, rho, a, b_raw, b >>,
             << rho, a, b, r1, rdot >>)

(***************************************************************************)
(* polyTEOS10_55t, lines 376-480                                           *)
(***************************************************************************)
\* V0k is the coefficient of p~^(k+1): t55_V0[k + 1] (lines 385-386)
t55_V0 ==
  << Lit(1, 440150, 7269, -15),             \* V00 = -4.4015007269e-05
     Lit(0, 692323, 35784, -16),            \* V01 = 6.9232335784e-06
     Lit(1, 750046, 75975, -17),            \* V02 = -7.5004675975e-07
     Lit(0, 170091, 9288, -18),             \* V03 = 1.7009109288e-08
     Lit(1, 168841, 62004, -18),            \* V04 = -1.6884162004e-08
     Lit(0, 196135, 3930, -19) >>           \* V05 = 1.9613503930e-09

\* Vijk is the coefficient of s^i t^j p~^k: t55_V[k + 1][j + 1][i + 1] (lines 390-407)
t55_V ==
  << << << Lit(0, 107728, 99069, -13),                    \* V000 = 1.0772899069e-03
           Lit(1, 312636, 58781, -14),                    \* V100 = -3.1263658781e-04
           Lit(0, 676158, 60683, -14),                    \* V200 = 6.7615860683e-04
           Lit(1, 861278, 84515, -14),                    \* V300 = -8.6127884515e-04
           Lit(0, 590108, 12596, -14),                    \* V400 = 5.9010812596e-04
           Lit(1, 215039, 43538, -14),                    \* V500 = -2.1503943538e-04
           Lit(0, 326789, 54455, -15) >>,                 \* V600 = 3.2678954455e-05
        << Lit(1, 149496, 52640, -15),                    \* V010 = -1.4949652640e-05
           Lit(0, 318663, 49188, -15),                    \* V110 = 3.1866349188e-05
           Lit(1, 380706, 87610, -15),                    \* V210 = -3.8070687610e-05
           Lit(0, 298184, 73563, -15),                    \* V310 = 2.9818473563e-05
           Lit(1, 100113, 21965, -15),                    \* V410 = -1.0011321965e-05
           Lit(0, 107519, 31163, -16) >>,                 \* V510 = 1.0751931163e-06
        << Lit(0, 275468, 51539, -15),                    \* V020 = 2.7546851539e-05
           Lit(1, 365973, 34199, -15),                    \* V120 = -3.6597334199e-05
           Lit(0, 344891, 54625, -15),                    \* V220 = 3.4489154625e-05
           Lit(1, 176632, 54122, -15),                    \* V320 = -1.7663254122e-05
           Lit(0, 359651, 31935, -16) >>,                 \* V420 = 3.5965131935e-06
        << Lit(1, 165068, 28994, -15),                    \* V030 = -1.6506828994e-05
           Lit(0, 244123, 59055, -15),                    \* V130 = 2.4412359055e-05
           Lit(1, 146067, 40723, -15),                    \* V230 = -1.4606740723e-05
           Lit(0, 232934, 6656, -16) >>,                  \* V330 = 2.3293406656e-06
        << Lit(0, 678961, 74634, -16),                    \* V040 = 6.7896174634e-06
           Lit(1, 879518, 32993, -16),                    \* V140 = -8.7951832993e-06
           Lit(0, 442490, 40774, -16) >>,                 \* V240 = 4.4249040774e-06
        << Lit(1, 725357, 43349, -17),                    \* V050 = -7.2535743349e-07
           Lit(1, 346805, 59205, -17) >>,                 \* V150 = -3.4680559205e-07
        << Lit(0, 190413, 65570, -17) >> >>,              \* V060 = 1.9041365570e-07
     << << Lit(1, 168894, 36589, -15),                    \* V001 = -1.6889436589e-05
           Lit(0, 211065, 56158, -15),                    \* V101 = 2.1106556158e-05
           Lit(1, 213228, 4368, -15),                     \* V201 = -2.1322804368e-05
           Lit(0, 173476, 55458, -15),                    \* V301 = 1.7347655458e-05
           Lit(1, 432094, 767, -16) >>,                   \* V401 = -4.3209400767e-06
        << Lit(0, 153558, 44621, -15),                    \* V011 = 1.5355844621e-05
           Lit(0, 209141, 22241, -16),                    \* V111 = 2.0914122241e-06
           Lit(1, 577514, 79725, -16),                    \* V211 = -5.7751479725e-06
           Lit(0, 107672, 34341, -16) >>,                 \* V311 = 1.0767234341e-06
        << Lit(1, 966593, 93016, -16),                    \* V021 = -9.6659393016e-06
           Lit(1, 706869, 82208, -17),                    \* V121 = -7.0686982208e-07
           Lit(0, 144880, 66593, -16) >>,                 \* V221 = 1.4488066593e-06
        << Lit(0, 311342, 83336, -16),                    \* V031 = 3.1134283336e-06
           Lit(0, 795625, 29879, -18) >>,                 \* V131 = 7.9562529879e-08
        << Lit(1, 565902, 53863, -17) >> >>,              \* V041 = -5.6590253863e-07
     << << Lit(0, 105002, 41168, -16),                    \* V002 = 1.0500241168e-06
           Lit(0, 196006, 61704, -16),                    \* V102 = 1.9600661704e-06
           Lit(1, 216666, 93382, -16) >>,                 \* V202 = -2.1666693382e-06
        << Lit(1, 385413, 59685, -16),                    \* V012 = -3.8541359685e-06
           Lit(0, 101576, 32247, -16) >>,                 \* V112 = 1.0157632247e-06
        << Lit(0, 171783, 43158, -16) >> >>,              \* V022 = 1.7178343158e-06
     << << Lit(1, 415034, 54190, -17),                    \* V003 = -4.1503454190e-07
           Lit(0, 356270, 20989, -17) >>,                 \* V103 = 3.5627020989e-07
        << Lit(1, 112938, 71415, -17) >> >> >>            \* V013 = -1.1293871415e-07

\* Aijk is the coefficient of s^i t^j p~^k: t55_A[k + 1][j + 1][i + 1] (lines 427-438)
t55_A ==
  << << << Lit(1, 373741, 31601, -17),                    \* A000 = -3.7374131601e-07
           Lit(0, 796658, 72970, -17),                    \* A100 = 7.9665872970e-07
           Lit(1, 951767, 19025, -17),                    \* A200 = -9.5176719025e-07
           Lit(0, 745461, 83908, -17),                    \* A300 = 7.4546183908e-07
           Lit(1, 250283, 4913, -17),                     \* A400 = -2.5028304913e-07
           Lit(0, 268798, 27908, -18) >>,                 \* A500 = 2.6879827908e-08
        << Lit(0, 137734, 25769, -16),                    \* A010 = 1.3773425769e-06
           Lit(1, 182986, 67100, -16),                    \* A110 = -1.8298667100e-06
           Lit(0, 172445, 77313, -16),                    \* A210 = 1.7244577313e-06
           Lit(1, 883162, 70612, -17),                    \* A310 = -8.8316270612e-07
           Lit(0, 179825, 65968, -17) >>,                 \* A410 = 1.7982565968e-07
        << Lit(1, 123801, 21746, -16),                    \* A020 = -1.2380121746e-06
           Lit(0, 183092, 69291, -16),                    \* A120 = 1.8309269291e-06
           Lit(1, 109550, 55542, -16),                    \* A220 = -1.0955055542e-06
           Lit(0, 174700, 54992, -17) >>,                 \* A320 = 1.7470054992e-07
        << Lit(0, 678961, 74634, -17),                    \* A030 = 6.7896174634e-07
           Lit(1, 879518, 32993, -17),                    \* A130 = -8.7951832993e-07
           Lit(0, 442490, 40774, -17) >>,                 \* A230 = 4.4249040774e-07
        << Lit(1, 906696, 79187, -18),                    \* A040 = -9.0669679187e-08
           Lit(1, 433506, 99006, -18) >>,                 \* A140 = -4.3350699006e-08
        << Lit(0, 285620, 48354, -18) >> >>,              \* A050 = 2.8562048354e-08
     << << Lit(0, 383896, 11552, -17),                    \* A001 = 3.8389611552e-07
           Lit(0, 522853, 5603, -18),                     \* A101 = 5.2285305603e-08
           Lit(1, 144378, 69931, -17),                    \* A201 = -1.4437869931e-07
           Lit(0, 269180, 85852, -18) >>,                 \* A301 = 2.6918085852e-08
        << Lit(1, 483296, 96508, -17),                    \* A011 = -4.8329696508e-07
           Lit(1, 353434, 91104, -18),                    \* A111 = -3.5343491104e-08
           Lit(0, 724403, 32965, -18) >>,                 \* A211 = 7.2440332965e-08
        << Lit(0, 233507, 12502, -17),                    \* A021 = 2.3350712502e-07
           Lit(0, 596718, 97409, -19) >>,                 \* A121 = 5.9671897409e-09
        << Lit(1, 565902, 53863, -18) >> >>,              \* A031 = -5.6590253863e-08
     << << Lit(1, 963533, 99212, -18),                    \* A002 = -9.6353399212e-08
           Lit(0, 253940, 80617, -18) >>,                 \* A102 = 2.5394080617e-08
        << Lit(0, 858917, 15792, -18) >> >>,              \* A012 = 8.5891715792e-08
     << << Lit(1, 282346, 78537, -19) >> >> >>            \* A003 = -2.8234678537e-09

\* Bijk is the coefficient of s^i t^j p~^k: t55_B[k + 1][j + 1][i + 1] (lines 454-465)
t55_B ==
  << << << Lit(0, 388961, 61405, -16),                    \* B000 = 3.8896161405e-06
           Lit(1, 168246, 29831, -15),                    \* B100 = -1.6824629831e-05
           Lit(0, 321463, 72768, -15),                    \* B200 = 3.2146372768e-05
           Lit(1, 293669, 28644, -15),                    \* B300 = -2.9366928644e-05
           Lit(0, 133768, 86957, -15),                    \* B400 = 1.3376886957e-05
           Lit(1, 243941, 86796, -16) >>,                 \* B500 = -2.4394186796e-06
        << Lit(1, 396459, 88657, -17),                    \* B010 = -3.9645988657e-07
           Lit(0, 947300, 26353, -17),                    \* B110 = 9.4730026353e-07
           Lit(1, 111294, 47472, -16),                    \* B210 = -1.1129447472e-06
           Lit(0, 498216, 79257, -17),                    \* B310 = 4.9821679257e-07
           Lit(1, 668841, 82186, -18) >>,                 \* B410 = -6.6884182186e-08
        << Lit(0, 455319, 65020, -17),                    \* B020 = 4.5531965020e-07
           Lit(1, 858182, 16892, -17),                    \* B120 = -8.5818216892e-07
           Lit(0, 659263, 32049, -17),                    \* B220 = 6.5926332049e-07
           Lit(1, 178981, 68433, -17) >>,                 \* B320 = -1.7898168433e-07
        << Lit(1, 303722, 30734, -17),                    \* B030 = -3.0372230734e-07
           Lit(0, 363454, 67351, -17),                    \* B130 = 3.6345467351e-07
           Lit(1, 869403, 14119, -18) >>,                 \* B230 = -8.6940314119e-08
        << Lit(0, 109423, 81108, -17),                    \* B040 = 1.0942381108e-07
           Lit(1, 110103, 41714, -17) >>,                 \* B140 = -1.1010341714e-07
        << Lit(0, 431472, 41272, -19) >> >>,              \* B050 = 4.3147241272e-09
     << << Lit(1, 262593, 71009, -17),                    \* B001 = -2.6259371009e-07
           Lit(0, 530568, 25249, -17),                    \* B101 = 5.3056825249e-07
           Lit(1, 647483, 91553, -17),                    \* B201 = -6.4748391553e-07
           Lit(0, 215033, 3093, -17) >>,                  \* B301 = 2.1503303093e-07
        << Lit(1, 260199, 57550, -18),                    \* B011 = -2.6019957550e-08
           Lit(0, 143701, 8710, -17),                     \* B111 = 1.4370108710e-07
           Lit(1, 401876, 26893, -18) >>,                 \* B211 = -4.0187626893e-08
        << Lit(0, 879440, 33950, -19),                    \* B021 = 8.7944033950e-09
           Lit(1, 360501, 74460, -18) >>,                 \* B121 = -3.6050174460e-08
        << Lit(1, 989863, 99054, -20) >> >>,              \* B031 = -9.8986399054e-10
     << << Lit(1, 243858, 37456, -18),                    \* B002 = -2.4385837456e-08
           Lit(0, 539125, 12852, -18) >>,                 \* B102 = 5.3912512852e-08
        << Lit(1, 126374, 49319, -18) >> >>,              \* B012 = -1.2637449319e-08
     << << Lit(1, 443247, 65969, -19) >> >> >>            \* B003 = -4.4324765969e-09

\* the CHECK VALUES of the header comment, at SA = 30, CT = 10, p = 1000 (lines 356-361)
t55_CHECK ==
  << Dec(0, 97328, 20466, -13),             \* specvol = 9.732820466e-04
     Dec(0, 17485, 53121, -13),             \* alpha   = 1.748553121e-04
     Dec(0, 74509, 74025, -13),             \* beta    = 7.450974025e-04
     Dec(1, 43330, 16903, -15),             \* v0      = -4.333016903e-06
     Dec(0, 97761, 50635, -13) >>           \* delta   = 9.776150635e-04

t55_SAu == (Lit(0, 0, 40, 0).val (.) Lit(0, 35, 16504, -5).val) (/) Lit(0, 0, 35, 0).val

\* the salinity unit in place of the temperature unit
t55_CTu_as_SAu == (Lit(0, 0, 40, 0).val (.) Lit(0, 35, 16504, -5).val) (/) Lit(0, 0, 35, 0).val

t55_CTu == Lit(0, 0, 40, 0).val

t55_Zu == Lit(0, 0, 1, 4).val

t55_deltaS == Lit(0, 0, 32, 0).val

\* line 380
t55_ss(SA) ==
  NSqrt((SA (+) t55_deltaS) (/) t55_SAu)

\* line 381
t55_tt(CT) ==
  CT (/) t55_CTu

\* line 382
t55_pp(p) ==
  p (/) t55_Zu

\* line 387
t55_v0(pp) ==
  ( ( ( ((C0(t55_V0, 5) (.) pp (+) C0(t55_V0, 4)) (.) pp (+) C0(t55_V0, 3)) (.) pp (+)
        C0(t55_V0, 2) ) (.)
      pp (+)
      C0(t55_V0, 1) ) (.)
    pp (+)
    C0(t55_V0, 0) ) (.)
  pp

\* lines 409-421
t55_delta(ss, tt, pp) ==
  LET vp3 ==
        C(t55_V, 0, 1, 3) (.) tt (+) C(t55_V, 1, 0, 3) (.) ss (+) C(t55_V, 0, 0, 3)
      vp2 ==
        (C(t55_V, 0, 2, 2) (.) tt (+) C(t55_V, 1, 1, 2) (.) ss (+) C(t55_V, 0, 1, 2)) (.)
        tt (+)
        (C(t55_V, 2, 0, 2) (.) ss (+) C(t55_V, 1, 0, 2)) (.) ss (+)
        C(t55_V, 0, 0, 2)
      vp1 ==
        ( ( ( C(t55_V, 0, 4, 1) (.) tt (+)
              C(t55_V, 1, 3, 1) (.) ss (+)
              C(t55_V, 0, 3, 1) ) (.)
            tt (+)
            (C(t55_V, 2, 2, 1) (.) ss (+) C(t55_V, 1, 2, 1)) (.) ss (+)
            C(t55_V, 0, 2, 1) ) (.)
          tt (+)
          ( (C(t55_V, 3, 1, 1) (.) ss (+) C(t55_V, 2, 1, 1)) (.) ss (+)
            C(t55_V, 1, 1, 1) ) (.)
          ss (+)
          C(t55_V, 0, 1, 1) ) (.)
        tt (+)
        ( ( (C(t55_V, 4, 0, 1) (.) ss (+) C(t55_V, 3, 0, 1)) (.) ss (+)
            C(t55_V, 2, 0, 1) ) (.)
          ss (+)
          C(t55_V, 1, 0, 1) ) (.)
        ss (+)
        C(t55_V, 0, 0, 1)
      vp0 ==
        ( ( ( ( ( C(t55_V, 0, 6, 0) (.) tt (+)
                  C(t55_V, 1, 5, 0) (.) ss (+)
                  C(t55_V, 0, 5, 0) ) (.)
                tt (+)
                (C(t55_V, 2, 4, 0) (.) ss (+) C(t55_V, 1, 4, 0)) (.) ss (+)
                C(t55_V, 0, 4, 0) ) (.)
              tt (+)
              ( (C(t55_V, 3, 3, 0) (.) ss (+) C(t55_V, 2, 3, 0)) (.) ss (+)
                C(t55_V, 1, 3, 0) ) (.)
              ss (+)
              C(t55_V, 0, 3, 0) ) (.)
            tt (+)
            ( ( (C(t55_V, 4, 2, 0) (.) ss (+) C(t55_V, 3, 2, 0)) (.) ss (+)
                C(t55_V, 2, 2, 0) ) (.)
              ss (+)
              C(t55_V, 1, 2, 0) ) (.)
            ss (+)
            C(t55_V, 0, 2, 0) ) (.)
          tt (+)
          ( ( ( (C(t55_V, 5, 1, 0) (.) ss (+) C(t55_V, 4, 1, 0)) (.) ss (+)
                C(t55_V, 3, 1, 0) ) (.)
              ss (+)
              C(t55_V, 2, 1, 0) ) (.)
            ss (+)
            C(t55_V, 1, 1, 0) ) (.)
          ss (+)
          C(t55_V, 0, 1, 0) ) (.)
        tt (+)
        ( ( ( ( (C(t55_V, 6, 0, 0) (.) ss (+) C(t55_V, 5, 0, 0)) (.) ss (+)
                C(t55_V, 4, 0, 0) ) (.)
              ss (+)
              C(t55_V, 3, 0, 0) ) (.)
            ss (+)
            C(t55_V, 2, 0, 0) ) (.)
          ss (+)
          C(t55_V, 1, 0, 0) ) (.)
        ss (+)
        C(t55_V, 0, 0, 0)
  IN  ((vp3 (.) pp (+) vp2) (.) pp (+) vp1) (.) pp (+) vp0

\* line 424
t55_specvol(v0, delta) ==
  v0 (+) delta

\* lines 440-450
t55_a(ss, tt, pp) ==
  LET ap3 ==
        C(t55_A, 0, 0, 3)
      ap2 ==
        C(t55_A, 0, 1, 2) (.) tt (+) C(t55_A, 1, 0, 2) (.) ss (+) C(t55_A, 0, 0, 2)
      ap1 ==
        ( (C(t55_A, 0, 3, 1) (.) tt (+) C(t55_A, 1, 2, 1) (.) ss (+) C(t55_A, 0, 2, 1)) (.)
          tt (+)
          (C(t55_A, 2, 1, 1) (.) ss (+) C(t55_A, 1, 1, 1)) (.) ss (+)
          C(t55_A, 0, 1, 1) ) (.)
        tt (+)
        ((C(t55_A, 3, 0, 1) (.) ss (+) C(t55_A, 2, 0, 1)) (.) ss (+) C(t55_A, 1, 0, 1)) (.)
        ss (+)
        C(t55_A, 0, 0, 1)
      ap0 ==
        ( ( ( ( C(t55_A, 0, 5, 0) (.) tt (+)
                C(t55_A, 1, 4, 0) (.) ss (+)
                C(t55_A, 0, 4, 0) ) (.)
              tt (+)
              (C(t55_A, 2, 3, 0) (.) ss (+) C(t55_A, 1, 3, 0)) (.) ss (+)
              C(t55_A, 0, 3, 0) ) (.)
            tt (+)
            ( (C(t55_A, 3, 2, 0) (.) ss (+) C(t55_A, 2, 2, 0)) (.) ss (+)
              C(t55_A, 1, 2, 0) ) (.)
            ss (+)
            C(t55_A, 0, 2, 0) ) (.)
          tt (+)
          ( ( (C(t55_A, 4, 1, 0) (.) ss (+) C(t55_A, 3, 1, 0)) (.) ss (+)
              C(t55_A, 2, 1, 0) ) (.)
            ss (+)
            C(t55_A, 1, 1, 0) ) (.)
          ss (+)
          C(t55_A, 0, 1, 0) ) (.)
        tt (+)
        ( ( ( (C(t55_A, 5, 0, 0) (.) ss (+) C(t55_A, 4, 0, 0)) (.) ss (+)
              C(t55_A, 3, 0, 0) ) (.)
            ss (+)
            C(t55_A, 2, 0, 0) ) (.)
          ss (+)
          C(t55_A, 1, 0, 0) ) (.)
        ss (+)
        C(t55_A, 0, 0, 0)
  IN  ((ap3 (.) pp (+) ap2) (.) pp (+) ap1) (.) pp (+) ap0

\* the polynomial alone, as in the density evaluators: not divided by specvol
t55_alpha_not_normalised(a, specvol) ==
  a

\* line 451
t55_alpha(a, specvol) ==
  a (/) specvol

\* lines 467-477
t55_b(ss, tt, pp) ==
  LET bp3 ==
        C(t55_B, 0, 0, 3)
      bp2 ==
        C(t55_B, 0, 1, 2) (.) tt (+) C(t55_B, 1, 0, 2) (.) ss (+) C(t55_B, 0, 0, 2)
      bp1 ==
        ( (C(t55_B, 0, 3, 1) (.) tt (+) C(t55_B, 1, 2, 1) (.) ss (+) C(t55_B, 0, 2, 1)) (.)
          tt (+)
          (C(t55_B, 2, 1, 1) (.) ss (+) C(t55_B, 1, 1, 1)) (.) ss (+)
          C(t55_B, 0, 1, 1) ) (.)
        tt (+)
        ((C(t55_B, 3, 0, 1) (.) ss (+) C(t55_B, 2, 0, 1)) (.) ss (+) C(t55_B, 1, 0, 1)) (.)
        ss (+)
        C(t55_B, 0, 0, 1)
      bp0 ==
        ( ( ( ( C(t55_B, 0, 5, 0) (.) tt (+)
                C(t55_B, 1, 4, 0) (.) ss (+)
                C(t55_B, 0, 4, 0) ) (.)
              tt (+)
              (C(t55_B, 2, 3, 0) (.) ss (+) C(t55_B, 1, 3, 0)) (.) ss (+)
              C(t55_B, 0, 3, 0) ) (.)
            tt (+)
            ( (C(t55_B, 3, 2, 0) (.) ss (+) C(t55_B, 2, 2, 0)) (.) ss (+)
              C(t55_B, 1, 2, 0) ) (.)
            ss (+)
            C(t55_B, 0, 2, 0) ) (.)
          tt (+)
          ( ( (C(t55_B, 4, 1, 0) (.) ss (+) C(t55_B, 3, 1, 0)) (.) ss (+)
              C(t55_B, 2, 1, 0) ) (.)
            ss (+)
            C(t55_B, 1, 1, 0) ) (.)
          ss (+)
          C(t55_B, 0, 1, 0) ) (.)
        tt (+)
        ( ( ( (C(t55_B, 5, 0, 0) (.) ss (+) C(t55_B, 4, 0, 0)) (.) ss (+)
              C(t55_B, 3, 0, 0) ) (.)
            ss (+)
            C(t55_B, 2, 0, 0) ) (.)
          ss (+)
          C(t55_B, 1, 0, 0) ) (.)
        ss (+)
        C(t55_B, 0, 0, 0)
  IN  ((bp3 (.) pp (+) bp2) (.) pp (+) bp1) (.) pp (+) bp0

\* line 478
t55_beta(ss, b, specvol) ==
  (b (/) ss) (/) specvol

\* lines 376-480
polyTEOS10_55t(SA, CT, p) ==
  LET ss == t55_ss(SA)
      tt == t55_tt(CT)
      pp == t55_pp(p)
      v0 == t55_v0(pp)
      delta == t55_delta(ss, tt, pp)
      specvol == t55_specvol(v0, delta)
      a == t55_a(ss, tt, pp)
      alpha == t55_alpha(a, specvol)
      b == t55_b(ss, tt, pp)
      beta == t55_beta(ss, b, specvol)
  IN  Return(<< ss, tt, pp, v0, delta, specvol, a, alpha, b, beta >>,
             << specvol, alpha, beta, v0, delta >>)

(***************************************************************************)
(* polyTEOS10_75t, lines 535-673                                           *)
(***************************************************************************)
\* V0k is the coefficient of p~^(k+1): t75_V0[k + 1] (lines 544-545)
t75_V0 ==
  << Lit(1, 440150, 7269, -15),             \* V00 = -4.4015007269e-05
     Lit(0, 692323, 35784, -16),            \* V01 = 6.9232335784e-06
     Lit(1, 750046, 75975, -17),            \* V02 = -7.5004675975e-07
     Lit(0, 170091, 9288, -18),             \* V03 = 1.7009109288e-08
     Lit(1, 168841, 62004, -18),            \* V04 = -1.6884162004e-08
     Lit(0, 196135, 3930, -19) >>           \* V05 = 1.9613503930e-09

\* Vijk is the coefficient of s^i t^j p~^k: t75_V[k + 1][j + 1][i + 1] (lines 549-573)
t75_V ==
  << << << Lit(0, 107699, 95862, -13),                    \* V000 = 1.0769995862e-03
           Lit(1, 310389, 81976, -14),                    \* V100 = -3.1038981976e-04
           Lit(0, 669280, 67038, -14),                    \* V200 = 6.6928067038e-04
           Lit(1, 850479, 33937, -14),                    \* V300 = -8.5047933937e-04
           Lit(0, 580860, 69943, -14),                    \* V400 = 5.8086069943e-04
           Lit(1, 210923, 70507, -14),                    \* V500 = -2.1092370507e-04
           Lit(0, 319324, 57305, -15) >>,                 \* V600 = 3.1932457305e-05
        << Lit(1, 156497, 34675, -15),                    \* V010 = -1.5649734675e-05
           Lit(0, 350095, 99764, -15),                    \* V110 = 3.5009599764e-05
           Lit(1, 435926, 78561, -15),                    \* V210 = -4.3592678561e-05
           Lit(0, 345324, 61828, -15),                    \* V310 = 3.4532461828e-05
           Lit(1, 119594, 9788, -15),                     \* V410 = -1.1959409788e-05
           Lit(0, 138645, 94581, -16) >>,                 \* V510 = 1.3864594581e-06
        << Lit(0, 277621, 6484, -15),                     \* V020 = 2.7762106484e-05
           Lit(1, 374358, 42344, -15),                    \* V120 = -3.7435842344e-05
           Lit(0, 359078, 22760, -15),                    \* V220 = 3.5907822760e-05
           Lit(1, 186985, 84187, -15),                    \* V320 = -1.8698584187e-05
           Lit(0, 385953, 39244, -16) >>,                 \* V420 = 3.8595339244e-06
        << Lit(1, 165211, 59259, -15),                    \* V030 = -1.6521159259e-05
           Lit(0, 241414, 79483, -15),                    \* V130 = 2.4141479483e-05
           Lit(1, 143536, 33048, -15),                    \* V230 = -1.4353633048e-05
           Lit(0, 228633, 24556, -16) >>,                 \* V330 = 2.2863324556e-06
        << Lit(0, 691113, 22702, -16),                    \* V040 = 6.9111322702e-06
           Lit(1, 875958, 73154, -16),                    \* V140 = -8.7595873154e-06
           Lit(0, 437036, 80598, -16) >>,                 \* V240 = 4.3703680598e-06
        << Lit(1, 805396, 15540, -17),                    \* V050 = -8.0539615540e-07
           Lit(1, 330527, 58900, -17) >>,                 \* V150 = -3.3052758900e-07
        << Lit(0, 205430, 94268, -17) >> >>,              \* V060 = 2.0543094268e-07
     << << Lit(1, 167841, 36540, -15),                    \* V001 = -1.6784136540e-05
           Lit(0, 242624, 68747, -15),                    \* V101 = 2.4262468747e-05
           Lit(1, 347924, 60974, -15),                    \* V201 = -3.4792460974e-05
           Lit(0, 374707, 77305, -15),                    \* V301 = 3.7470777305e-05
           Lit(1, 173222, 18612, -15),                    \* V401 = -1.7322218612e-05
           Lit(0, 309274, 27253, -16) >>,                 \* V501 = 3.0927427253e-06
        << Lit(0, 185057, 65429, -15),                    \* V011 = 1.8505765429e-05
           Lit(1, 956770, 88156, -16),                    \* V111 = -9.5677088156e-06
           Lit(0, 111008, 34765, -15),                    \* V211 = 1.1100834765e-05
           Lit(1, 984471, 17844, -16),                    \* V311 = -9.8447117844e-06
           Lit(0, 259092, 25260, -16) >>,                 \* V411 = 2.5909225260e-06
        << Lit(1, 117166, 6853, -15),                     \* V021 = -1.1716606853e-05
           Lit(1, 236783, 8361, -17),                     \* V121 = -2.3678308361e-07
           Lit(0, 292833, 46295, -16),                    \* V221 = 2.9283346295e-06
           Lit(1, 488261, 39200, -17) >>,                 \* V321 = -4.8826139200e-07
        << Lit(0, 792796, 56173, -16),                    \* V031 = 7.9279656173e-06
           Lit(1, 345587, 73655, -16),                    \* V131 = -3.4558773655e-06
           Lit(0, 316553, 6078, -17) >>,                  \* V231 = 3.1655306078e-07
        << Lit(1, 341021, 87482, -16),                    \* V041 = -3.4102187482e-06
           Lit(0, 129567, 17783, -16) >>,                 \* V141 = 1.2956717783e-06
        << Lit(0, 507367, 66814, -17) >> >>,              \* V051 = 5.0736766814e-07
     << << Lit(0, 306238, 33435, -16),                    \* V002 = 3.0623833435e-06
           Lit(1, 584844, 32984, -17),                    \* V102 = -5.8484432984e-07
           Lit(1, 481222, 51597, -16),                    \* V202 = -4.8122251597e-06
           Lit(0, 492631, 6998, -16),                     \* V302 = 4.9263106998e-06
           Lit(1, 178119, 74727, -16) >>,                 \* V402 = -1.7811974727e-06
        << Lit(1, 117363, 86731, -16),                    \* V012 = -1.1736386731e-06
           Lit(1, 556991, 54557, -16),                    \* V112 = -5.5699154557e-06
           Lit(0, 546207, 48834, -16),                    \* V212 = 5.4620748834e-06
           Lit(1, 135441, 85627, -16) >>,                 \* V312 = -1.3544185627e-06
        << Lit(0, 213050, 28740, -16),                    \* V022 = 2.1305028740e-06
           Lit(0, 391373, 87080, -17),                    \* V122 = 3.9137387080e-07
           Lit(1, 657311, 4067, -17) >>,                  \* V222 = -6.5731104067e-07
        << Lit(1, 461325, 40037, -17),                    \* V032 = -4.6132540037e-07
           Lit(0, 776188, 88092, -19) >>,                 \* V132 = 7.7618888092e-09
        << Lit(1, 633529, 16514, -18) >> >>,              \* V042 = -6.3352916514e-08
     << << Lit(1, 380889, 38393, -17),                    \* V003 = -3.8088938393e-07
           Lit(0, 363101, 88515, -17),                    \* V103 = 3.6310188515e-07
           Lit(0, 167463, 3780, -18) >>,                  \* V203 = 1.6746303780e-08
        << Lit(1, 365270, 6553, -17),                     \* V013 = -3.6527006553e-07
           Lit(1, 272956, 96237, -17) >>,                 \* V113 = -2.7295696237e-07
        << Lit(0, 286959, 5159, -17) >> >>,               \* V023 = 2.8695905159e-07
     << << Lit(0, 883024, 21514, -18),                    \* V004 = 8.8302421514e-08
           Lit(1, 111471, 25423, -17) >>,                 \* V104 = -1.1147125423e-07
        << Lit(0, 314540, 99902, -17) >> >>,              \* V014 = 3.1454099902e-07
     << << Lit(0, 423690, 7180, -19) >> >> >>             \* V005 = 4.2369007180e-09

\* Aijk is the coefficient of s^i t^j p~^k: t75_A[k + 1][j + 1][i + 1] (lines 600-616)
t75_A ==
  << << << Lit(1, 391243, 36688, -17),                    \* A000 = -3.9124336688e-07
           Lit(0, 875239, 99410, -17),                    \* A100 = 8.7523999410e-07
           Lit(1, 108981, 69640, -16),                    \* A200 = -1.0898169640e-06
           Lit(0, 863311, 54570, -17),                    \* A300 = 8.6331154570e-07
           Lit(1, 298985, 24469, -17),                    \* A400 = -2.9898524469e-07
           Lit(0, 346614, 86454, -18) >>,                 \* A500 = 3.4661486454e-08
        << Lit(0, 138810, 53242, -16),                    \* A010 = 1.3881053242e-06
           Lit(1, 187179, 21172, -16),                    \* A110 = -1.8717921172e-06
           Lit(0, 179539, 11380, -16),                    \* A210 = 1.7953911380e-06
           Lit(1, 934929, 20933, -17),                    \* A310 = -9.3492920933e-07
           Lit(0, 192976, 69622, -17) >>,                 \* A410 = 1.9297669622e-07
        << Lit(1, 123908, 69444, -16),                    \* A020 = -1.2390869444e-06
           Lit(0, 181061, 9612, -16),                     \* A120 = 1.8106109612e-06
           Lit(1, 107652, 24786, -16),                    \* A220 = -1.0765224786e-06
           Lit(0, 171474, 93417, -17) >>,                 \* A320 = 1.7147493417e-07
        << Lit(0, 691113, 22702, -17),                    \* A030 = 6.9111322702e-07
           Lit(1, 875958, 73154, -17),                    \* A130 = -8.7595873154e-07
           Lit(0, 437036, 80598, -17) >>,                 \* A230 = 4.3703680598e-07
        << Lit(1, 100674, 51943, -17),                    \* A040 = -1.0067451943e-07
           Lit(1, 413159, 48624, -18) >>,                 \* A140 = -4.1315948624e-08
        << Lit(0, 308146, 41402, -18) >> >>,              \* A050 = 3.0814641402e-08
     << << Lit(0, 462644, 13572, -17),                    \* A001 = 4.6264413572e-07
           Lit(1, 239192, 72039, -17),                    \* A101 = -2.3919272039e-07
           Lit(0, 277520, 86911, -17),                    \* A201 = 2.7752086911e-07
           Lit(1, 246117, 79461, -17),                    \* A301 = -2.4611779461e-07
           Lit(0, 647730, 63150, -18) >>,                 \* A401 = 6.4773063150e-08
        << Lit(1, 585830, 34263, -17),                    \* A011 = -5.8583034263e-07
           Lit(1, 118391, 54180, -18),                    \* A111 = -1.1839154180e-08
           Lit(0, 146416, 73148, -17),                    \* A211 = 1.4641673148e-07
           Lit(1, 244130, 69600, -18) >>,                 \* A311 = -2.4413069600e-08
        << Lit(0, 594597, 42130, -17),                    \* A021 = 5.9459742130e-07
           Lit(1, 259190, 80242, -17),                    \* A121 = -2.5919080242e-07
           Lit(0, 237414, 79559, -18) >>,                 \* A221 = 2.3741479559e-08
        << Lit(1, 341021, 87482, -17),                    \* A031 = -3.4102187482e-07
           Lit(0, 129567, 17783, -17) >>,                 \* A131 = 1.2956717783e-07
        << Lit(0, 634209, 58518, -18) >> >>,              \* A041 = 6.3420958518e-08
     << << Lit(1, 293409, 66828, -18),                    \* A002 = -2.9340966828e-08
           Lit(1, 139247, 88639, -17),                    \* A102 = -1.3924788639e-07
           Lit(0, 136551, 87208, -17),                    \* A202 = 1.3655187208e-07
           Lit(1, 338604, 64067, -18) >>,                 \* A302 = -3.3860464067e-08
        << Lit(0, 106525, 14370, -17),                    \* A012 = 1.0652514370e-07
           Lit(0, 195686, 93540, -18),                    \* A112 = 1.9568693540e-08
           Lit(1, 328655, 52033, -18) >>,                 \* A212 = -3.2865552033e-08
        << Lit(1, 345994, 5028, -18),                     \* A022 = -3.4599405028e-08
           Lit(0, 582141, 66069, -20) >>,                 \* A122 = 5.8214166069e-10
        << Lit(1, 633529, 16514, -19) >> >>,              \* A032 = -6.3352916514e-09
     << << Lit(1, 913175, 16382, -19),                    \* A003 = -9.1317516382e-09
           Lit(1, 682392, 40593, -19) >>,                 \* A103 = -6.8239240593e-09
        << Lit(0, 143479, 52579, -18) >> >>,              \* A013 = 1.4347952579e-08
     << << Lit(0, 786352, 49756, -19) >> >> >>            \* A004 = 7.8635249756e-09

\* Bijk is the coefficient of s^i t^j p~^k: t75_B[k + 1][j + 1][i + 1] (lines 637-653)
t75_B ==
  << << << Lit(0, 386166, 33493, -16),                    \* B000 = 3.8616633493e-06
           Lit(1, 166534, 88424, -15),                    \* B100 = -1.6653488424e-05
           Lit(0, 317432, 92000, -15),                    \* B200 = 3.1743292000e-05
           Lit(1, 289067, 27363, -15),                    \* B300 = -2.8906727363e-05
           Lit(0, 131208, 61084, -15),                    \* B400 = 1.3120861084e-05
           Lit(1, 238369, 41584, -16) >>,                 \* B500 = -2.3836941584e-06
        << Lit(1, 435566, 11614, -17),                    \* B010 = -4.3556611614e-07
           Lit(0, 108470, 21286, -16),                    \* B110 = 1.0847021286e-06
           Lit(1, 128888, 96515, -16),                    \* B210 = -1.2888896515e-06
           Lit(0, 595164, 3589, -17),                     \* B310 = 5.9516403589e-07
           Lit(1, 862470, 24451, -18) >>,                 \* B410 = -8.6247024451e-08
        << Lit(0, 465751, 80991, -17),                    \* B020 = 4.6575180991e-07
           Lit(1, 893482, 41648, -17),                    \* B120 = -8.9348241648e-07
           Lit(0, 697905, 98120, -17),                    \* B220 = 6.9790598120e-07
           Lit(1, 192070, 99914, -17) >>,                 \* B320 = -1.9207099914e-07
        << Lit(1, 300352, 20418, -17),                    \* B030 = -3.0035220418e-07
           Lit(0, 357156, 67939, -17),                    \* B130 = 3.5715667939e-07
           Lit(1, 853350, 75632, -18) >>,                 \* B230 = -8.5335075632e-08
        << Lit(0, 108980, 94956, -17),                    \* B040 = 1.0898094956e-07
           Lit(1, 108746, 41554, -17) >>,                 \* B140 = -1.0874641554e-07
        << Lit(0, 411220, 40579, -19) >> >>,              \* B050 = 4.1122040579e-09
     << << Lit(1, 301857, 47199, -17),                    \* B001 = -3.0185747199e-07
           Lit(0, 865729, 23996, -17),                    \* B101 = 8.6572923996e-07
           Lit(1, 139855, 93422, -16),                    \* B201 = -1.3985593422e-06
           Lit(0, 862046, 1419, -17),                     \* B301 = 8.6204601419e-07
           Lit(1, 192389, 22270, -17) >>,                 \* B401 = -1.9238922270e-07
        << Lit(0, 119035, 5888, -17),                     \* B011 = 1.1903505888e-07
           Lit(1, 276218, 38107, -17),                    \* B111 = -2.7621838107e-07
           Lit(0, 367444, 3581, -17),                     \* B211 = 3.6744403581e-07
           Lit(1, 128938, 12777, -17) >>,                 \* B311 = -1.2893812777e-07
        << Lit(0, 294589, 73764, -19),                    \* B021 = 2.9458973764e-09
           Lit(1, 728647, 77086, -18),                    \* B121 = -7.2864777086e-08
           Lit(0, 182238, 68848, -18) >>,                 \* B221 = 1.8223868848e-08
        << Lit(0, 429957, 23805, -18),                    \* B031 = 4.2995723805e-08
           Lit(1, 787668, 45761, -19) >>,                 \* B131 = -7.8766845761e-09
        << Lit(1, 161198, 85062, -18) >> >>,              \* B041 = -1.6119885062e-08
     << << Lit(0, 727624, 35164, -19),                    \* B002 = 7.2762435164e-09
           Lit(0, 119740, 99887, -17),                    \* B102 = 1.1974099887e-07
           Lit(1, 183869, 62715, -17),                    \* B202 = -1.8386962715e-07
           Lit(0, 886418, 89138, -18) >>,                 \* B302 = 8.8641889138e-08
        << Lit(0, 692971, 77307, -18),                    \* B012 = 6.9297177307e-08
           Lit(1, 135910, 99350, -17),                    \* B112 = -1.3591099350e-07
           Lit(0, 505523, 20246, -18) >>,                 \* B212 = 5.0552320246e-08
        << Lit(1, 486921, 29590, -19),                    \* B022 = -4.8692129590e-09
           Lit(0, 163556, 52107, -18) >>,                 \* B122 = 1.6355652107e-08
        << Lit(1, 965682, 49433, -21) >> >>,              \* B032 = -9.6568249433e-11
     << << Lit(1, 451747, 17490, -19),                    \* B003 = -4.5174717490e-09
           Lit(1, 416692, 70980, -20) >>,                 \* B103 = -4.1669270980e-10
        << Lit(0, 339594, 86762, -19) >> >>,              \* B013 = 3.3959486762e-09
     << << Lit(0, 138685, 10806, -19) >> >> >>            \* B004 = 1.3868510806e-09

\* the CHECK VALUES of the header comment, at SA = 30, CT = 10, p = 1000 (lines 515-520)
t75_CHECK ==
  << Dec(0, 97328, 19628, -13),             \* specvol = 9.732819628e-04
     Dec(0, 17484, 39401, -13),             \* alpha   = 1.748439401e-04
     Dec(0, 74512, 13159, -13),             \* beta    = 7.451213159e-04
     Dec(1, 43330, 16903, -15),             \* v0      = -4.333016903e-06
     Dec(0, 97761, 49797, -13) >>           \* delta   = 9.776149797e-04

t75_SAu == (Lit(0, 0, 40, 0).val (.) Lit(0, 35, 16504, -5).val) (/) Lit(0, 0, 35, 0).val

t75_CTu == Lit(0, 0, 40, 0).val

t75_Zu == Lit(0, 0, 1, 4).val

t75_deltaS == Lit(0, 0, 32, 0).val

\* line 539
t75_ss(SA) ==
  NSqrt((SA (+) t75_deltaS) (/) t75_SAu)

\* line 540
t75_tt(CT) ==
  CT (/) t75_CTu

\* line 541
t75_pp(p) ==
  p (/) t75_Zu

\* the six coefficients taken in the opposite order: V00 the highest
t75_v0_reversed(pp) ==
  ( ( ( ( (C0(t75_V0, 0) (.) pp (+) C0(t75_V0, 1)) (.) pp (+) C0(t75_V0, 2)) (.) pp (+)
        C0(t75_V0, 3) ) (.) pp (+)
      C0(t75_V0, 4) ) (.) pp (+)
    C0(t75_V0, 5) ) (.) pp

\* line 546
t75_v0(pp) ==
  ( ( ( ((C0(t75_V0, 5) (.) pp (+) C0(t75_V0, 4)) (.) pp (+) C0(t75_V0, 3)) (.) pp (+)
        C0(t75_V0, 2) ) (.)
      pp (+)
      C0(t75_V0, 1) ) (.)
    pp (+)
    C0(t75_V0, 0) ) (.)
  pp

\* lines 575-594
t75_delta(ss, tt, pp) ==
  LET vp5 ==
        C(t75_V, 0, 0, 5)
      vp4 ==
        C(t75_V, 0, 1, 4) (.) tt (+) C(t75_V, 1, 0, 4) (.) ss (+) C(t75_V, 0, 0, 4)
      vp3 ==
        (C(t75_V, 0, 2, 3) (.) tt (+) C(t75_V, 1, 1, 3) (.) ss (+) C(t75_V, 0, 1, 3)) (.)
        tt (+)
        (C(t75_V, 2, 0, 3) (.) ss (+) C(t75_V, 1, 0, 3)) (.) ss (+)
        C(t75_V, 0, 0, 3)
      vp2 ==
        ( ( ( C(t75_V, 0, 4, 2) (.) tt (+)
              C(t75_V, 1, 3, 2) (.) ss (+)
              C(t75_V, 0, 3, 2) ) (.)
            tt (+)
            (C(t75_V, 2, 2, 2) (.) ss (+) C(t75_V, 1, 2, 2)) (.) ss (+)
            C(t75_V, 0, 2, 2) ) (.)
          tt (+)
          ( (C(t75_V, 3, 1, 2) (.) ss (+) C(t75_V, 2, 1, 2)) (.) ss (+)
            C(t75_V, 1, 1, 2) ) (.)
          ss (+)
          C(t75_V, 0, 1, 2) ) (.)
        tt (+)
        ( ( (C(t75_V, 4, 0, 2) (.) ss (+) C(t75_V, 3, 0, 2)) (.) ss (+)
            C(t75_V, 2, 0, 2) ) (.)
          ss (+)
          C(t75_V, 1, 0, 2) ) (.)
        ss (+)
        C(t75_V, 0, 0, 2)
      vp1 ==
        ( ( ( ( C(t75_V, 0, 5, 1) (.) tt (+)
                C(t75_V, 1, 4, 1) (.) ss (+)
                C(t75_V, 0, 4, 1) ) (.)
              tt (+)
              (C(t75_V, 2, 3, 1) (.) ss (+) C(t75_V, 1, 3, 1)) (.) ss (+)
              C(t75_V, 0, 3, 1) ) (.)
            tt (+)
            ( (C(t75_V, 3, 2, 1) (.) ss (+) C(t75_V, 2, 2, 1)) (.) ss (+)
              C(t75_V, 1, 2, 1) ) (.)
            ss (+)
            C(t75_V, 0, 2, 1) ) (.)
          tt (+)
          ( ( (C(t75_V, 4, 1, 1) (.) ss (+) C(t75_V, 3, 1, 1)) (.) ss (+)
              C(t75_V, 2, 1, 1) ) (.)
            ss (+)
            C(t75_V, 1, 1, 1) ) (.)
          ss (+)
          C(t75_V, 0, 1, 1) ) (.)
        tt (+)
        ( ( ( (C(t75_V, 5, 0, 1) (.) ss (+) C(t75_V, 4, 0, 1)) (.) ss (+)
              C(t75_V, 3, 0, 1) ) (.)
            ss (+)
            C(t75_V, 2, 0, 1) ) (.)
          ss (+)
          C(t75_V, 1, 0, 1) ) (.)
        ss (+)
        C(t75_V, 0, 0, 1)
      vp0 ==
        ( ( ( ( ( C(t75_V, 0, 6, 0) (.) tt (+)
                  C(t75_V, 1, 5, 0) (.) ss (+)
                  C(t75_V, 0, 5, 0) ) (.)
                tt (+)
                (C(t75_V, 2, 4, 0) (.) ss (+) C(t75_V, 1, 4, 0)) (.) ss (+)
                C(t75_V, 0, 4, 0) ) (.)
              tt (+)
              ( (C(t75_V, 3, 3, 0) (.) ss (+) C(t75_V, 2, 3, 0)) (.) ss (+)
                C(t75_V, 1, 3, 0) ) (.)
              ss (+)
              C(t75_V, 0, 3, 0) ) (.)
            tt (+)
            ( ( (C(t75_V, 4, 2, 0) (.) ss (+) C(t75_V, 3, 2, 0)) (.) ss (+)
                C(t75_V, 2, 2, 0) ) (.)
              ss (+)
              C(t75_V, 1, 2, 0) ) (.)
            ss (+)
            C(t75_V, 0, 2, 0) ) (.)
          tt (+)
          ( ( ( (C(t75_V, 5, 1, 0) (.) ss (+) C(t75_V, 4, 1, 0)) (.) ss (+)
                C(t75_V, 3, 1, 0) ) (.)
              ss (+)
              C(t75_V, 2, 1, 0) ) (.)
            ss (+)
            C(t75_V, 1, 1, 0) ) (.)
          ss (+)
          C(t75_V, 0, 1, 0) ) (.)
        tt (+)
        ( ( ( ( (C(t75_V, 6, 0, 0) (.) ss (+) C(t75_V, 5, 0, 0)) (.) ss (+)
                C(t75_V, 4, 0, 0) ) (.)
              ss (+)
              C(t75_V, 3, 0, 0) ) (.)
            ss (+)
            C(t75_V, 2, 0, 0) ) (.)
          ss (+)
          C(t75_V, 1, 0, 0) ) (.)
        ss (+)
        C(t75_V, 0, 0, 0)
  IN  ((((vp5 (.) pp (+) vp4) (.) pp (+) vp3) (.) pp (+) vp2) (.) pp (+) vp1) (.) pp (+) vp0

\* the anomaly alone, the reference profile left out
t75_specvol_anomaly_only(v0, delta) ==
  delta

\* line 597
t75_specvol(v0, delta) ==
  v0 (+) delta

\* lines 618-633
t75_a(ss, tt, pp) ==
  LET ap4 ==
        C(t75_A, 0, 0, 4)
      ap3 ==
        C(t75_A, 0, 1, 3) (.) tt (+) C(t75_A, 1, 0, 3) (.) ss (+) C(t75_A, 0, 0, 3)
      ap2 ==
        ( (C(t75_A, 0, 3, 2) (.) tt (+) C(t75_A, 1, 2, 2) (.) ss (+) C(t75_A, 0, 2, 2)) (.)
          tt (+)
          (C(t75_A, 2, 1, 2) (.) ss (+) C(t75_A, 1, 1, 2)) (.) ss (+)
          C(t75_A, 0, 1, 2) ) (.)
        tt (+)
        ((C(t75_A, 3, 0, 2) (.) ss (+) C(t75_A, 2, 0, 2)) (.) ss (+) C(t75_A, 1, 0, 2)) (.)
        ss (+)
        C(t75_A, 0, 0, 2)
      ap1 ==
        ( ( ( C(t75_A, 0, 4, 1) (.) tt (+)
              C(t75_A, 1, 3, 1) (.) ss (+)
              C(t75_A, 0, 3, 1) ) (.)
            tt (+)
            (C(t75_A, 2, 2, 1) (.) ss (+) C(t75_A, 1, 2, 1)) (.) ss (+)
            C(t75_A, 0, 2, 1) ) (.)
          tt (+)
          ( (C(t75_A, 3, 1, 1) (.) ss (+) C(t75_A, 2, 1, 1)) (.) ss (+)
            C(t75_A, 1, 1, 1) ) (.)
          ss (+)
          C(t75_A, 0, 1, 1) ) (.)
        tt (+)
        ( ( (C(t75_A, 4, 0, 1) (.) ss (+) C(t75_A, 3, 0, 1)) (.) ss (+)
            C(t75_A, 2, 0, 1) ) (.)
          ss (+)
          C(t75_A, 1, 0, 1) ) (.)
        ss (+)
        C(t75_A, 0, 0, 1)
      ap0 ==
        ( ( ( ( C(t75_A, 0, 5, 0) (.) tt (+)
                C(t75_A, 1, 4, 0) (.) ss (+)
                C(t75_A, 0, 4, 0) ) (.)
              tt (+)
              (C(t75_A, 2, 3, 0) (.) ss (+) C(t75_A, 1, 3, 0)) (.) ss (+)
              C(t75_A, 0, 3, 0) ) (.)
            tt (+)
            ( (C(t75_A, 3, 2, 0) (.) ss (+) C(t75_A, 2, 2, 0)) (.) ss (+)
              C(t75_A, 1, 2, 0) ) (.)
            ss (+)
            C(t75_A, 0, 2, 0) ) (.)
          tt (+)
          ( ( (C(t75_A, 4, 1, 0) (.) ss (+) C(t75_A, 3, 1, 0)) (.) ss (+)
              C(t75_A, 2, 1, 0) ) (.)
            ss (+)
            C(t75_A, 1, 1, 0) ) (.)
          ss (+)
          C(t75_A, 0, 1, 0) ) (.)
        tt (+)
        ( ( ( (C(t75_A, 5, 0, 0) (.) ss (+) C(t75_A, 4, 0, 0)) (.) ss (+)
              C(t75_A, 3, 0, 0) ) (.)
            ss (+)
            C(t75_A, 2, 0, 0) ) (.)
          ss (+)
          C(t75_A, 1, 0, 0) ) (.)
        ss (+)
        C(t75_A, 0, 0, 0)
  IN  (((ap4 (.) pp (+) ap3) (.) pp (+) ap2) (.) pp (+) ap1) (.) pp (+) ap0

\* line 634
t75_alpha(a, specvol) ==
  a (/) specvol

\* lines 655-670
t75_b(ss, tt, pp) ==
  LET bp4 ==
        C(t75_B, 0, 0, 4)
      bp3 ==
        C(t75_B, 0, 1, 3) (.) tt (+) C(t75_B, 1, 0, 3) (.) ss (+) C(t75_B, 0, 0, 3)
      bp2 ==
        ( (C(t75_B, 0, 3, 2) (.) tt (+) C(t75_B, 1, 2, 2) (.) ss (+) C(t75_B, 0, 2, 2)) (.)
          tt (+)
          (C(t75_B, 2, 1, 2) (.) ss (+) C(t75_B, 1, 1, 2)) (.) ss (+)
          C(t75_B, 0, 1, 2) ) (.)
        tt (+)
        ((C(t75_B, 3, 0, 2) (.) ss (+) C(t75_B, 2, 0, 2)) (.) ss (+) C(t75_B, 1, 0, 2)) (.)
        ss (+)
        C(t75_B, 0, 0, 2)
      bp1 ==
        ( ( ( C(t75_B, 0, 4, 1) (.) tt (+)
              C(t75_B, 1, 3, 1) (.) ss (+)
              C(t75_B, 0, 3, 1) ) (.)
            tt (+)
            (C(t75_B, 2, 2, 1) (.) ss (+) C(t75_B, 1, 2, 1)) (.) ss (+)
            C(t75_B, 0, 2, 1) ) (.)
          tt (+)
          ( (C(t75_B, 3, 1, 1) (.) ss (+) C(t75_B, 2, 1, 1)) (.) ss (+)
            C(t75_B, 1, 1, 1) ) (.)
          ss (+)
          C(t75_B, 0, 1, 1) ) (.)
        tt (+)
        ( ( (C(t75_B, 4, 0, 1) (.) ss (+) C(t75_B, 3, 0, 1)) (.) ss (+)
            C(t75_B, 2, 0, 1) ) (.)
          ss (+)
          C(t75_B, 1, 0, 1) ) (.)
        ss (+)
        C(t75_B, 0, 0, 1)
      bp0 ==
        ( ( ( ( C(t75_B, 0, 5, 0) (.) tt (+)
                C(t75_B, 1, 4, 0) (.) ss (+)
                C(t75_B, 0, 4, 0) ) (.)
              tt (+)
              (C(t75_B, 2, 3, 0) (.) ss (+) C(t75_B, 1, 3, 0)) (.) ss (+)
              C(t75_B, 0, 3, 0) ) (.)
            tt (+)
            ( (C(t75_B, 3, 2, 0) (.) ss (+) C(t75_B, 2, 2, 0)) (.) ss (+)
              C(t75_B, 1, 2, 0) ) (.)
            ss (+)
            C(t75_B, 0, 2, 0) ) (.)
          tt (+)
          ( ( (C(t75_B, 4, 1, 0) (.) ss (+) C(t75_B, 3, 1, 0)) (.) ss (+)
              C(t75_B, 2, 1, 0) ) (.)
            ss (+)
            C(t75_B, 1, 1, 0) ) (.)
          ss (+)
          C(t75_B, 0, 1, 0) ) (.)
        tt (+)
        ( ( ( (C(t75_B, 5, 0, 0) (.) ss (+) C(t75_B, 4, 0, 0)) (.) ss (+)
              C(t75_B, 3, 0, 0) ) (.)
            ss (+)
            C(t75_B, 2, 0, 0) ) (.)
          ss (+)
          C(t75_B, 1, 0, 0) ) (.)
        ss (+)
        C(t75_B, 0, 0, 0)
  IN  (((bp4 (.) pp (+) bp3) (.) pp (+) bp2) (.) pp (+) bp1) (.) pp (+) bp0

\* line 671
t75_beta(ss, b, specvol) ==
  (b (/) ss) (/) specvol

\* lines 535-673
polyTEOS10_75t(SA, CT, p) ==
  LET ss == t75_ss(SA)
      tt == t75_tt(CT)
      pp == t75_pp(p)
      v0 == t75_v0(pp)
      delta == t75_delta(ss, tt, pp)
      specvol == t75_specvol(v0, delta)
      a == t75_a(ss, tt, pp)
      alpha == t75_alpha(a, specvol)
      b == t75_b(ss, tt, pp)
      beta == t75_beta(ss, b, specvol)
  IN  Return(<< ss, tt, pp, v0, delta, specvol, a, alpha, b, beta >>,
             << specvol, alpha, beta, v0, delta >>)

(***************************************************************************)
(* The inputs of the calls.  The scalar inputs are Python floats: a grid   *)
(* holding the check point of the docstrings (SA = 30, CT = 10,            *)
(* p = 1000), the surface p = 0, the salinity -deltaS = -32 at which       *)
(* ss = 0, and a salinity below it.                                        *)
(***************************************************************************)
SAs == { Lit(0, 0, 30, 0).val, Lit(0, 0, 35, 0).val, Lit(1, 0, 32, 0).val, Lit(1, 0, 40, 0).val }

CTs == { Lit(0, 0, 10, 0).val, Lit(1, 0, 2, 0).val, Lit(0, 0, 25, 0).val }

ps == { Lit(0, 0, 1000, 0).val, Lit(0, 0, 0, 0).val, Lit(0, 0, 5000, 0).val }

ScalarInputs == SAs \X CTs \X ps

CheckPoint == << Lit(0, 0, 30, 0).val, Lit(0, 0, 10, 0).val, Lit(0, 0, 1000, 0).val >>

(***************************************************************************)
(* The array inputs: the coordinates of one to MaxLen points, each         *)
(* argument given either as the array of its coordinate or, broadcast by   *)
(* numpy, as the scalar coordinate of the first point.                     *)
(***************************************************************************)
MaxLen == 2

Points == { CheckPoint, << Lit(1, 0, 32, 0).val, Lit(0, 0, 25, 0).val, Lit(0, 0, 0, 0).val >> }

\* the array of the coordinate c of the points q
RECURSIVE Column(_, _, _)
Column(q, c, i) ==
  IF i > Len(q) THEN << >> ELSE << q[i][c].v >> \o Column(q, c, i + 1)

\* the arguments: coordinate c is an array if c is in arr, a scalar otherwise
ArgsOf(q, arr) ==
  [c \in 1..3 |-> IF c \in arr THEN NdArray(Column(q, c, 1)) ELSE q[1][c]]

ArrayInputs ==
  { ArgsOf(q, arr) : q \in UNION { [1..n -> Points] : n \in 1..MaxLen },
                     arr \in (SUBSET (1..3)) \ {{}} }

Inputs == ScalarInputs \cup ArrayInputs

Init ==
  /\ pc = "idle"
  /\ fn = "none"
  /\ args = << >>
  /\ out = << >>

\* SA += deltaS on an array argument, in place
ArgsAfter_in_place(f, x) ==
  [x EXCEPT ![1] = IF IsArray(@) THEN @ (+) bsq_deltaS ELSE @]

\* the arguments as a call of f leaves them to the caller: every statement of
\* the four functions assigns a new local name, none assigns SA, CT or p or
\* applies an in-place operation to them
ArgsAfter(f, x) == x

\* a call of f with the arguments x, which ends with res
Call(f, x, res) ==
  /\ pc = "idle"
  /\ \E r \in { res } :
       /\ pc' = IF IsRaise(r) THEN "raised" ELSE "returned"
       /\ fn' = f
       /\ args' = ArgsAfter(f, x)
       /\ out' = r

Call_bsq ==
  \E x \in Inputs : Call("polyTEOS10_bsq", x, polyTEOS10_bsq(x[1], x[2], x[3]))

Call_stif ==
  \E x \in Inputs : Call("polyTEOS10_stif", x, polyTEOS10_stif(x[1], x[2], x[3]))

Call_55t ==
  \E x \in Inputs : Call("polyTEOS10_55t", x, polyTEOS10_55t(x[1], x[2], x[3]))

Call_75t ==
  \E x \in Inputs : Call("polyTEOS10_75t", x, polyTEOS10_75t(x[1], x[2], x[3]))

Evaluators == { "polyTEOS10_bsq", "polyTEOS10_stif", "polyTEOS10_55t", "polyTEOS10_75t" }

\* the call of the function named f
Apply(f, SA, CT, p) ==
  CASE f = "polyTEOS10_bsq" -> polyTEOS10_bsq(SA, CT, p)
    [] f = "polyTEOS10_stif" -> polyTEOS10_stif(SA, CT, p)
    [] f = "polyTEOS10_55t" -> polyTEOS10_55t(SA, CT, p)
    [] f = "polyTEOS10_75t" -> polyTEOS10_75t(SA, CT, p)

\* the arguments as the calls can leave them to the caller
ArgsLeft == { ArgsAfter(f, x) : f \in Evaluators, x \in Inputs }

\* the function named f is called again, on x, the objects that the call that
\* has returned was given and has left to the caller, and gives res
CallAgain(f, x, res) ==
  /\ pc = "returned"
  /\ args = x
  /\ \E r \in { res } :
       /\ pc' = IF IsRaise(r) THEN "raised" ELSE "returned"
       /\ fn' = f
       /\ args' = ArgsAfter(f, x)
       /\ out' = r

\* the caller calls an evaluator again, on the arguments of the call that has
\* returned
Again ==
  \E g \in Evaluators :
    \E x \in ArgsLeft : CallAgain(g, x, Apply(g, x[1], x[2], x[3]))

\* the caller takes the result; nothing of the call remains in the module
Done ==
  /\ pc # "idle"
  /\ pc' = "idle"
  /\ fn' = "none"
  /\ args' = << >>
  /\ out' = << >>

Next == Call_bsq \/ Call_stif \/ Call_55t \/ Call_75t \/ Done

Spec == Init /\ [][Next]_vars

\* the callers that also call again on the objects they hold
NextAgain == Next \/ Again

SpecAgain == Init /\ [][NextAgain]_vars

(***************************************************************************)
(* The properties.                                                         *)
(***************************************************************************)
\* the call of f has returned its tuple
Returned(f) == pc = "returned" /\ fn = f

\* the number of decimal digits of n > 0
RECURSIVE Digits(_)
Digits(n) == IF n < 10 THEN 1 ELSE 1 + Digits(n \div 10)

\* the number of digits a decimal is written with
DecDigits(d) == IF d.hi > 0 THEN 5 + Digits(d.hi) ELSE Digits(d.lo)

\* |f - d| <= 5 * 10^y, for a double f and a decimal d (exactly, in integers:
\* both sides are multiplied by the power of 2 and the power of 10 that make
\* every term a natural number)
Within(f, d, y) ==
  /\ IsFinite(f)
  /\ LET p2 == Max(0, -f.e)
         p10 == Max(0, Max(-d.x, -y))
         fn2 == BMul(BShl(f.m, f.e + p2), BPow10(p10))
         dn == BShl(BMul(DecMant(d), BPow10(d.x + p10)), p2)
         tol == BShl(BMulSmall(BPow10(y + p10), 5), p2)
         diff == IF fn2 = << >> \/ dn = << >> \/ f.s = d.s
                 THEN (IF BCmp(fn2, dn) >= 0 THEN BSub(fn2, dn) ELSE BSub(dn, fn2))
                 ELSE BAdd(fn2, dn)
     IN  BCmp(diff, tol) <= 0

\* f agrees with d to n significant figures: it is within half a unit of the
\* n-th significant digit of d
Agrees(f, d, n) == Within(f, d, d.x + DecDigits(d) - n - 1)

\* C1: in every tuple (rho, a, b, r0, r) that polyTEOS10_bsq returns, for scalar
\* and for array inputs, rho is the float64 sum of the returned r0 and the
\* returned r.
C1_rho_is_r0_plus_r ==
  Returned("polyTEOS10_bsq") => out.v[1] = out.v[4] (+) out.v[5]

\* a call at p > 0, where the reference profile is not zero and rho differs
\* from the anomaly
C1_witness ==
  /\ Returned("polyTEOS10_bsq")
  /\ args = CheckPoint
  /\ IsFinite(out.v[1].v) /\ ~IsZero(out.v[4].v)
  /\ out.v[1].v # out.v[5].v

\* C2: in every tuple (rho, a, b, r1, rdot) that polyTEOS10_stif returns, rho is
\* the float64 product of the returned r1 and the returned rdot.
C2_rho_is_r1_times_rdot ==
  Returned("polyTEOS10_stif") => out.v[1] = out.v[4] (.) out.v[5]

\* a call at p > 0, where the reference ratio is not 1 and rho differs from rdot
C2_witness ==
  /\ Returned("polyTEOS10_stif")
  /\ args = CheckPoint
  /\ IsFinite(out.v[1].v)
  /\ out.v[1].v # out.v[5].v

\* C3: in every tuple (specvol, alpha, beta, v0, delta) that polyTEOS10_55t or
\* polyTEOS10_75t returns, specvol is the float64 sum of the returned v0 and
\* the returned delta.
C3_specvol_is_v0_plus_delta ==
  Returned("polyTEOS10_55t") \/ Returned("polyTEOS10_75t")
    => out.v[1] = out.v[4] (+) out.v[5]

\* a call of the 75-term function at p > 0, where v0 is not zero
C3_witness ==
  /\ Returned("polyTEOS10_75t")
  /\ args = CheckPoint
  /\ IsFinite(out.v[1].v) /\ ~IsZero(out.v[4].v)
  /\ out.v[1].v # out.v[5].v

\* the five values returned agree with the function's CHECK VALUES to n
\* significant figures
AgreesWithCheck(check, n) == \A c \in 1..5 : Agrees(out.v[c].v, check[c], n)

\* C4: at SA = 30, CT = 10, p = 1000 each of the five values polyTEOS10_bsq and
\* polyTEOS10_stif return agrees with the documented check value to 8
\* significant figures.
C4_density_check_values ==
  /\ Returned("polyTEOS10_bsq") /\ args = CheckPoint => AgreesWithCheck(bsq_CHECK, 8)
  /\ Returned("polyTEOS10_stif") /\ args = CheckPoint => AgreesWithCheck(stif_CHECK, 8)

\* the call of polyTEOS10_stif at the check point has returned
C4_witness ==
  /\ Returned("polyTEOS10_stif")
  /\ args = CheckPoint
  /\ \A c \in 1..5 : IsFinite(out.v[c].v)

\* C5, as the claim states it: at SA = 30, CT = 10, p = 1000 each of the five
\* values polyTEOS10_55t and polyTEOS10_75t return agrees with the documented
\* check value to 8 significant figures.  The code does not: only v0 agrees.
C5_specvol_check_values ==
  /\ Returned("polyTEOS10_55t") /\ args = CheckPoint => AgreesWithCheck(t55_CHECK, 8)
  /\ Returned("polyTEOS10_75t") /\ args = CheckPoint => AgreesWithCheck(t75_CHECK, 8)

\* the arguments that are arrays, and the length N of the arrays of the call
ArrayArgs == {c \in 1..3 : IsArray(args[c])}

ArgLen == Len(args[CHOOSE c \in ArrayArgs : TRUE].v)

\* the double at index i of a value: its element if it is an array, itself if
\* it is a scalar
ElemOf(u, i) == IF IsArray(u) THEN u.v[i] ELSE u.v

\* the scalar call on the operands paired at index i
ScalarCallAt(i) ==
  Apply(fn, PyFloat(ElemOf(args[1], i)), PyFloat(ElemOf(args[2], i)),
            PyFloat(ElemOf(args[3], i)))

(***************************************************************************)
(* The derivative tables.  A coefficient table T holds the coefficient of  *)
(* s^i t^j p~^k at T[k + 1][j + 1][i + 1].  With s = sqrt((SA + deltaS) /  *)
(* SAu) and t = CT / CTu, the derivative of s^i t^j p~^k with respect to   *)
(* CT is j s^i t^(j-1) p~^k / CTu, and with respect to SA it is            *)
(* i s^(i-1) t^j p~^k / (2 SAu), divided by s.                             *)
(***************************************************************************)
\* the decimal cA is within h half-units of its last digit of f * cR / D, or
\* of its opposite if neg = 1, for a factor f and a double D > 0 (exactly, in
\* integers: |cA * D - f * cR| * 2 <= h * 10^cA.x * D, every term multiplied
\* by the powers of 2 and 10 that make it a natural number)
DerivedFrom(cA, cR, neg, f, D, h) ==
  LET x0 == Min(cA.x, cR.x)
      e0 == Min(D.e, 0)
      dm == BShl(D.m, D.e - e0)
      tA == BMul(BMul(DecMant(cA), BPow10(cA.x - x0)), dm)
      tR == BShl(BMulSmall(BMul(DecMant(cR), BPow10(cR.x - x0)), f), -e0)
      diff == IF cA.s # Xor(cR.s, neg) THEN BAdd(tA, tR)
              ELSE IF BCmp(tA, tR) >= 0 THEN BSub(tA, tR)
              ELSE BSub(tR, tA)
      tol == BMulSmall(BMul(BPow10(cA.x - x0), dm), h)
  IN  BCmp(BMulSmall(diff, 2), tol) <= 0

\* every coefficient of tabA is, to h half-units of its last printed digit,
\* (j + 1) * tabR[i][j + 1][k] / D (its opposite if neg = 1), and every
\* coefficient of tabR of a power of t above 0 has its coefficient in tabA
DerivativeInT(tabA, tabR, neg, D, h) ==
  /\ \A k \in 1..Len(tabA) : \A j \in 1..Len(tabA[k]) : \A i \in 1..Len(tabA[k][j]) :
       /\ k <= Len(tabR) /\ j + 1 <= Len(tabR[k]) /\ i <= Len(tabR[k][j + 1])
       /\ DerivedFrom(tabA[k][j][i].dec, tabR[k][j + 1][i].dec, neg, j, D, h)
  /\ \A k \in 1..Len(tabR) : \A j \in 2..Len(tabR[k]) : \A i \in 1..Len(tabR[k][j]) :
       k <= Len(tabA) /\ j - 1 <= Len(tabA[k]) /\ i <= Len(tabA[k][j - 1])

\* every coefficient of tabB is, to h half-units of its last printed digit,
\* (i + 1) * tabR[i + 1][j][k] / D (its opposite if neg = 1), and every
\* coefficient of tabR of a power of s above 0 has its coefficient in tabB
DerivativeInS(tabB, tabR, neg, D, h) ==
  /\ \A k \in 1..Len(tabB) : \A j \in 1..Len(tabB[k]) : \A i \in 1..Len(tabB[k][j]) :
       /\ k <= Len(tabR) /\ j <= Len(tabR[k]) /\ i + 1 <= Len(tabR[k][j])
       /\ DerivedFrom(tabB[k][j][i].dec, tabR[k][j][i + 1].dec, neg, i, D, h)
  /\ \A k \in 1..Len(tabR) : \A j \in 1..Len(tabR[k]) : \A i \in 2..Len(tabR[k][j]) :
       k <= Len(tabB) /\ j <= Len(tabB[k]) /\ i - 1 <= Len(tabB[k][j])

\* 2 * SAu
Twice(u) == (Lit(0, 0, 2, 0).val (.) u).v

\* the polynomial of a table at (s, t, p~): the sum of T[i][j][k] s^i t^j p~^k,
\* each sum taken from its highest power down
RECURSIVE RowSum(_, _, _)
RowSum(row, s, i) ==
  IF i = Len(row) THEN row[i].val
  ELSE LET rest == RowSum(row, s, i + 1)
       IN  IF IsRaise(rest) THEN rest ELSE row[i].val (+) s (.) rest

RECURSIVE LayerSum(_, _, _, _)
LayerSum(layer, s, t, j) ==
  LET head == RowSum(layer[j], s, 1)
  IN  IF j = Len(layer) \/ IsRaise(head) THEN head
      ELSE LET rest == LayerSum(layer, s, t, j + 1)
           IN  IF IsRaise(rest) THEN rest ELSE head (+) t (.) rest

RECURSIVE TableSum(_, _, _, _, _)
TableSum(tab, s, t, pp, k) ==
  LET head == LayerSum(tab[k], s, t, 1)
  IN  IF k = Len(tab) \/ IsRaise(head) THEN head
      ELSE LET rest == TableSum(tab, s, t, pp, k + 1)
           IN  IF IsRaise(rest) THEN rest ELSE head (+) pp (.) rest

\* |x| <= |y|, for finite doubles
AbsLeq(x, y) ==
  LET e0 == Min(x.e, y.e)
  IN  BCmp(BShl(x.m, x.e - e0), BShl(y.m, y.e - e0)) <= 0

\* two scalars are equal up to the rounding of the order of evaluation: both
\* finite, and |u - w| <= 10^-13 |w|
Close(u, w) ==
  /\ IsFinite(u.v) /\ IsFinite(w.v)
  /\ AbsLeq(FAdd(u.v, [w.v EXCEPT !.s = 1 - @]), FMul(Lit(0, 0, 1, -13).val.v, w.v))

\* a scalar call whose ss is a positive number
ScalarCallAtPositiveS(ss) == ArrayArgs = {} /\ IsFinite(ss.v) /\ ~IsZero(ss.v)

\* the reduced variables are numbers
Numbers(ss, tt, pp) == IsFinite(ss.v) /\ IsFinite(tt.v) /\ IsFinite(pp.v)

\* the coefficient identities of C6, to h half-units of the last digit
bsq_derivatives(h) ==
  /\ DerivativeInT(bsq_ALP, bsq_R, 1, bsq_CTu.v, h)
  /\ DerivativeInS(bsq_BET, bsq_R, 0, Twice(bsq_SAu), h)

stif_derivatives(h) ==
  /\ DerivativeInT(stif_ALP, stif_R, 1, stif_CTu.v, h)
  /\ DerivativeInS(stif_BET, stif_R, 0, Twice(stif_SAu), h)

C6_coefficients_within_3_units == bsq_derivatives(6) /\ stif_derivatives(6)

\* C6, amended: in polyTEOS10_bsq and polyTEOS10_stif every ALP coefficient is
\* -(j+1) R[i][j+1][k] / CTu and every BET coefficient is (i+1) R[i+1][j][k] /
\* (2 SAu) to within 3 units of the 11th significant digit printed (not to the
\* digit), every R coefficient with a power of t, of s, has its ALP, its BET
\* coefficient, and the a and b returned are the polynomials of these tables
\* (equal to their sums up to rounding), b divided by ss, both multiplied by
\* r1 in polyTEOS10_stif.
C6_density_derivatives ==
  /\ C6_coefficients_within_3_units
  /\ Returned("polyTEOS10_bsq") /\ ScalarCallAtPositiveS(bsq_ss(args[1])) =>
       LET ss == bsq_ss(args[1])
           tt == bsq_tt(args[2])
           pp == bsq_pp(args[3])
       IN  /\ Numbers(ss, tt, pp)
           /\ Close(out.v[2], TableSum(bsq_ALP, ss, tt, pp, 1))
           /\ Close(out.v[3], TableSum(bsq_BET, ss, tt, pp, 1) (/) ss)
  /\ Returned("polyTEOS10_stif") /\ ScalarCallAtPositiveS(stif_ss(args[1])) =>
       LET ss == stif_ss(args[1])
           tt == stif_tt(args[2])
           pp == stif_pp(args[3])
       IN  /\ Numbers(ss, tt, pp)
           /\ Close(out.v[2], out.v[4] (.) TableSum(stif_ALP, ss, tt, pp, 1))
           /\ Close(out.v[3], (out.v[4] (.) TableSum(stif_BET, ss, tt, pp, 1)) (/) ss)

\* polyTEOS10_stif has returned at the check point, where r1 is not 1
C6_witness ==
  /\ Returned("polyTEOS10_stif") /\ args = CheckPoint
  /\ IsFinite(out.v[2].v) /\ IsFinite(out.v[3].v)
  /\ out.v[4] # Lit(0, 0, 1, 0).val

C6_coefficients_to_the_digit == bsq_derivatives(1) /\ stif_derivatives(1)

\* C6, as the claim states it: every ALP and BET coefficient is its derivative
\* of the R table to the 11 significant digits printed, that is, it is the
\* derivative rounded to 11 digits (within half a unit of the last digit).
C6_coefficients_to_11_digits ==
  pc = "returned" => C6_coefficients_to_the_digit

\* the coefficient identities of C7, to h half-units of the last digit
t55_derivatives(h) ==
  /\ DerivativeInT(t55_A, t55_V, 0, t55_CTu.v, h)
  /\ DerivativeInS(t55_B, t55_V, 1, Twice(t55_SAu), h)

t75_derivatives(h) ==
  /\ DerivativeInT(t75_A, t75_V, 0, t75_CTu.v, h)
  /\ DerivativeInS(t75_B, t75_V, 1, Twice(t75_SAu), h)

C7_coefficients_within_4_units == t55_derivatives(8) /\ t75_derivatives(8)

\* C7, amended: in polyTEOS10_55t and polyTEOS10_75t every A coefficient is
\* (j+1) V[i][j+1][k] / CTu and every B coefficient is -(i+1) V[i+1][j][k] /
\* (2 SAu) to within 4 units of the 11th significant digit printed (not to the
\* digit), every V coefficient with a power of t, of s, has its A, its B
\* coefficient, and the alpha and beta returned are the polynomials of these
\* tables (equal to their sums up to rounding) divided by specvol, beta also
\* divided by ss.
C7_specvol_derivatives ==
  /\ C7_coefficients_within_4_units
  /\ Returned("polyTEOS10_55t") /\ ScalarCallAtPositiveS(t55_ss(args[1])) =>
       LET ss == t55_ss(args[1])
           tt == t55_tt(args[2])
           pp == t55_pp(args[3])
       IN  /\ Numbers(ss, tt, pp)
           /\ Close(out.v[2], TableSum(t55_A, ss, tt, pp, 1) (/) out.v[1])
           /\ Close(out.v[3], (TableSum(t55_B, ss, tt, pp, 1) (/) ss) (/) out.v[1])
  /\ Returned("polyTEOS10_75t") /\ ScalarCallAtPositiveS(t75_ss(args[1])) =>
       LET ss == t75_ss(args[1])
           tt == t75_tt(args[2])
           pp == t75_pp(args[3])
       IN  /\ Numbers(ss, tt, pp)
           /\ Close(out.v[2], TableSum(t75_A, ss, tt, pp, 1) (/) out.v[1])
           /\ Close(out.v[3], (TableSum(t75_B, ss, tt, pp, 1) (/) ss) (/) out.v[1])

\* polyTEOS10_75t has returned at the check point
C7_witness ==
  /\ Returned("polyTEOS10_75t") /\ args = CheckPoint
  /\ IsFinite(out.v[2].v) /\ IsFinite(out.v[3].v)
  /\ ~IsZero(out.v[2].v) /\ ~IsZero(out.v[3].v)

C7_coefficients_to_the_digit == t55_derivatives(1) /\ t75_derivatives(1)

\* C7, as the claim states it: every A and B coefficient is its derivative of
\* the V table to the 11 significant digits printed, that is, it is the
\* derivative rounded to 11 digits (within half a unit of the last digit).
C7_coefficients_to_11_digits ==
  pc = "returned" => C7_coefficients_to_the_digit

\* C8: when SA, CT and p are arrays of one length N, each of the five outputs is
\* an array of length N, and its element i is the output of the scalar call on
\* (SA[i], CT[i], p[i]).
C8_arrays_elementwise ==
  pc # "idle" /\ ArrayArgs = 1..3 =>
    /\ pc = "returned"
    /\ \A c \in 1..5 : Shape(out.v[c]) = << ArgLen >>
    /\ \A i \in 1..ArgLen :
         LET sc == ScalarCallAt(i)
         IN  sc.t = "tuple" /\ \A c \in 1..5 : out.v[c].v[i] = sc.v[c].v

\* three arrays of two different points, whose outputs differ between the two
C8_witness ==
  /\ pc = "returned" /\ ArrayArgs = 1..3 /\ ArgLen >= 2
  /\ \A c \in 1..3 : args[c].v[1] # args[c].v[2]
  /\ \A c \in 1..5 : IsArray(out.v[c]) /\ out.v[c].v[1] # out.v[c].v[2]

\* C9, amended: when at least one of SA, CT, p is an array of length N and the
\* others are scalars, rho (specvol), a (alpha), b (beta) and the anomaly have
\* shape N, and the reference component r0 / r1 / v0, a function of p alone,
\* has the shape of p: a scalar when p is a scalar.  Every output is paired
\* with the inputs element by element: its element i (itself, if it is a
\* scalar) is the output of the scalar call on the operands at index i.
C9_shapes_of_mixed_inputs ==
  pc # "idle" /\ ArrayArgs # {} =>
    /\ pc = "returned"
    /\ \A c \in {1, 2, 3, 5} : Shape(out.v[c]) = << ArgLen >>
    /\ Shape(out.v[4]) = Shape(args[3])
    /\ \A i \in 1..ArgLen :
         LET sc == ScalarCallAt(i)
         IN  sc.t = "tuple" /\ \A c \in 1..5 : ElemOf(out.v[c], i) = sc.v[c].v

\* SA and CT arrays of two points and p a scalar: the reference component
\* returned is a scalar
C9_witness ==
  /\ pc = "returned" /\ ArrayArgs = {1, 2} /\ ArgLen >= 2
  /\ args[1].v[1] # args[1].v[2]
  /\ Shape(out.v[4]) = << >> /\ Shape(out.v[5]) = << ArgLen >>

\* C9, as the claim states it: every one of the five outputs, the reference
\* component included, has the common shape N.
C9_every_output_has_shape_N ==
  pc = "returned" /\ ArrayArgs # {} =>
    \A c \in 1..5 : Shape(out.v[c]) = << ArgLen >>

\* the salinity -deltaS = -32, at which ss = 0
MinusDeltaS == Lit(1, 0, 32, 0).val.v

\* C10: a call with SA = -32 (as a scalar, or as an element of an array)
\* returns, it does not raise, and the haline coefficient returned for that
\* salinity (b, beta: the third output) is +inf, -inf or nan.
C10_haline_nonfinite_at_minus_32 ==
  pc # "idle" =>
    \A i \in 1..(IF ArrayArgs = {} THEN 1 ELSE ArgLen) :
      ElemOf(args[1], i) = MinusDeltaS =>
        pc = "returned" /\ ~IsFinite(ElemOf(out.v[3], i))

\* a scalar call of polyTEOS10_75t at SA = -32 has returned, with the other
\* four outputs finite
C10_witness ==
  /\ Returned("polyTEOS10_75t") /\ ArrayArgs = {}
  /\ args[1].v = MinusDeltaS
  /\ ~IsFinite(out.v[3].v)
  /\ IsFinite(out.v[1].v) /\ IsFinite(out.v[2].v)


\* the reduced salinity ss that the evaluator f computes from SA
ReducedS(f, SA) ==
  CASE f = "polyTEOS10_bsq" -> bsq_ss(SA)
    [] f = "polyTEOS10_stif" -> stif_ss(SA)
    [] f = "polyTEOS10_55t" -> t55_ss(SA)
    [] f = "polyTEOS10_75t" -> t75_ss(SA)

\* a salinity below -deltaS = -32
BelowMinusDeltaS(x) == IsFinite(x) /\ x.s = 1 /\ ~AbsLeq(x, MinusDeltaS)

\* C11: a call with SA < -32 (as a scalar, or as an element of an array)
\* returns, it does not raise; the reduced salinity of that SA is nan (the
\* salinity is not clamped), and the primary output, both derivative
\* coefficients and the anomaly returned for it (outputs 1, 2, 3 and 5) are nan.
C11_nan_below_minus_32 ==
  pc # "idle" =>
    \A i \in 1..(IF ArrayArgs = {} THEN 1 ELSE ArgLen) :
      BelowMinusDeltaS(ElemOf(args[1], i)) =>
        /\ pc = "returned"
        /\ ElemOf(ReducedS(fn, args[1]), i) = NaN
        /\ \A c \in {1, 2, 3, 5} : ElemOf(out.v[c], i) = NaN

\* a scalar call of polyTEOS10_bsq at SA = -40 has returned nan, beside a
\* reference density that is a positive number
C11_witness ==
  /\ Returned("polyTEOS10_bsq") /\ ArrayArgs = {}
  /\ BelowMinusDeltaS(args[1].v) /\ ~IsZero(args[3].v)
  /\ out.v[1].v = NaN /\ out.v[5].v = NaN
  /\ IsFinite(out.v[4].v) /\ ~IsZero(out.v[4].v)

C13_reference_depends_on_p_alone ==
  pc = "returned" /\ ArrayArgs = {} =>
    LET sc == Apply(fn, CheckPoint[1], CheckPoint[2], args[3])
    IN  sc.t = "tuple" /\ out.v[4] = sc.v[4]

\* polyTEOS10_stif has returned at a salinity below -32 and p > 0: rho is nan,
\* the reference ratio is a number other than 1
C13_witness ==
  /\ Returned("polyTEOS10_stif") /\ ArrayArgs = {}
  /\ BelowMinusDeltaS(args[1].v) /\ args[2] # CheckPoint[2] /\ ~IsZero(args[3].v)
  /\ out.v[1].v = NaN
  /\ IsFinite(out.v[4].v) /\ out.v[4] # Lit(0, 0, 1, 0).val

\* the reduced variables have been computed: none of them raised
Reduced(ss, tt, pp) == ~IsRaise(ss) /\ ~IsRaise(tt) /\ ~IsRaise(pp)

\* the indices of the call: 1 for a scalar call
Indices == 1..(IF ArrayArgs = {} THEN 1 ELSE ArgLen)

\* C14: where p = 0, polyTEOS10_bsq returns r0 = 0 and rho the same double as r
\* (nan where r is nan), polyTEOS10_55t and polyTEOS10_75t return v0 = 0 and
\* specvol the same double as delta, and polyTEOS10_stif returns r1 = 1, rho
\* the same double as rdot, a the double of its polynomial a_raw and b that of
\* b_raw / ss.
C14_reference_vanishes_at_p_0 ==
  pc = "returned" =>
    \A i \in Indices :
      IsZero(ElemOf(args[3], i)) =>
        /\ ElemOf(out.v[1], i) = ElemOf(out.v[5], i)
        /\ fn # "polyTEOS10_stif" => IsZero(ElemOf(out.v[4], i))
        /\ fn = "polyTEOS10_stif" =>
             LET ss == stif_ss(args[1])
                 tt == stif_tt(args[2])
                 pp == stif_pp(args[3])
             IN  /\ Reduced(ss, tt, pp)
                 /\ ElemOf(out.v[4], i) = Lit(0, 0, 1, 0).val.v
                 /\ ElemOf(out.v[2], i) = ElemOf(stif_a_raw(ss, tt, pp), i)
                 /\ ElemOf(out.v[3], i) = ElemOf(stif_b_raw(ss, tt, pp) (/) ss, i)

\* polyTEOS10_stif has returned at SA = 30, CT = 10, p = 0, with r1 = 1 and a
\* density that is a number
C14_witness ==
  /\ Returned("polyTEOS10_stif") /\ ArrayArgs = {}
  /\ args[1] = CheckPoint[1] /\ args[2] = CheckPoint[2] /\ IsZero(args[3].v)
  /\ out.v[4].v = Lit(0, 0, 1, 0).val.v
  /\ IsFinite(out.v[1].v) /\ ~IsZero(out.v[1].v) /\ out.v[1] = out.v[5]

\* C15: polyTEOS10_stif returns a = r1 * a_raw and b = r1 * b_raw / ss, for the
\* r1 that it returns and the polynomials a_raw and b_raw of the ALP and BET
\* tables; polyTEOS10_bsq returns a = a_raw and b = b_raw / ss, not scaled.
C15_stif_scales_by_r1 ==
  /\ Returned("polyTEOS10_stif") =>
       LET ss == stif_ss(args[1])
           tt == stif_tt(args[2])
           pp == stif_pp(args[3])
       IN  /\ Reduced(ss, tt, pp)
           /\ out.v[2] = out.v[4] (.) stif_a_raw(ss, tt, pp)
           /\ out.v[3] = (out.v[4] (.) stif_b_raw(ss, tt, pp)) (/) ss
  /\ Returned("polyTEOS10_bsq") =>
       LET ss == bsq_ss(args[1])
           tt == bsq_tt(args[2])
           pp == bsq_pp(args[3])
       IN  /\ Reduced(ss, tt, pp)
           /\ out.v[2] = bsq_a(ss, tt, pp)
           /\ out.v[3] = bsq_b_raw(ss, tt, pp) (/) ss

\* polyTEOS10_stif has returned for SA and CT arrays of two points and p = 1000:
\* r1 is a scalar other than 1, a and b are arrays
C15_witness ==
  /\ Returned("polyTEOS10_stif") /\ ArrayArgs = {1, 2} /\ ArgLen = 2
  /\ args[3] = CheckPoint[3]
  /\ ~IsArray(out.v[4]) /\ out.v[4] # Lit(0, 0, 1, 0).val
  /\ IsArray(out.v[2]) /\ IsArray(out.v[3])
  /\ IsFinite(out.v[2].v[1]) /\ IsFinite(out.v[3].v[1])

\* C16: polyTEOS10_55t and polyTEOS10_75t return alpha = a_raw / specvol and
\* beta = b_raw / (ss * specvol), computed as (b_raw / ss) / specvol, for the
\* specvol = v0 + delta that they return and the polynomials a_raw and b_raw of
\* their A and B tables (for a scalar call with ss > 0, beta is b_raw / (ss *
\* specvol) up to the rounding of the two divisions); the a and b of a scalar
\* call of a density evaluator are the polynomial, times r1 in
\* polyTEOS10_stif, and b_raw / ss, times r1: rho divides neither.
C16_specvol_normalises ==
  /\ Returned("polyTEOS10_55t") =>
       LET ss == t55_ss(args[1])
           tt == t55_tt(args[2])
           pp == t55_pp(args[3])
       IN  /\ Reduced(ss, tt, pp)
           /\ out.v[1] = out.v[4] (+) out.v[5]
           /\ out.v[2] = t55_a(ss, tt, pp) (/) out.v[1]
           /\ out.v[3] = (t55_b(ss, tt, pp) (/) ss) (/) out.v[1]
           /\ ScalarCallAtPositiveS(ss) =>
                Close(out.v[3], t55_b(ss, tt, pp) (/) (ss (.) out.v[1]))
  /\ Returned("polyTEOS10_75t") =>
       LET ss == t75_ss(args[1])
           tt == t75_tt(args[2])
           pp == t75_pp(args[3])
       IN  /\ Reduced(ss, tt, pp)
           /\ out.v[1] = out.v[4] (+) out.v[5]
           /\ out.v[2] = t75_a(ss, tt, pp) (/) out.v[1]
           /\ out.v[3] = (t75_b(ss, tt, pp) (/) ss) (/) out.v[1]
           /\ ScalarCallAtPositiveS(ss) =>
                Close(out.v[3], t75_b(ss, tt, pp) (/) (ss (.) out.v[1]))
  /\ Returned("polyTEOS10_bsq") /\ ArrayArgs = {} =>
       LET ss == bsq_ss(args[1])
           tt == bsq_tt(args[2])
           pp == bsq_pp(args[3])
       IN  /\ Reduced(ss, tt, pp)
           /\ out.v[2] = bsq_a(ss, tt, pp)
           /\ out.v[3] = bsq_b_raw(ss, tt, pp) (/) ss
  /\ Returned("polyTEOS10_stif") /\ ArrayArgs = {} =>
       LET ss == stif_ss(args[1])
           tt == stif_tt(args[2])
           pp == stif_pp(args[3])
       IN  /\ Reduced(ss, tt, pp)
           /\ out.v[2] = out.v[4] (.) stif_a_raw(ss, tt, pp)
           /\ out.v[3] = (stif_b_raw(ss, tt, pp) (.) out.v[4]) (/) ss

\* polyTEOS10_55t has returned for SA = 30, CT = 10 and an array p of two
\* pressures: alpha and beta are arrays of numbers
C16_witness ==
  /\ Returned("polyTEOS10_55t") /\ ArrayArgs = {3} /\ ArgLen = 2
  /\ args[1] = CheckPoint[1] /\ args[3].v[1] # args[3].v[2]
  /\ \A i \in 1..2 : /\ IsFinite(out.v[1].v[i]) /\ ~IsZero(out.v[1].v[i])
                     /\ IsFinite(out.v[2].v[i]) /\ IsFinite(out.v[3].v[i])

\* C17: polyTEOS10_55t and polyTEOS10_75t have the same six coefficients
\* V00..V05, and the v0 that a scalar call of polyTEOS10_55t returns is, bit
\* for bit, the v0 that polyTEOS10_75t returns for the same arguments; their
\* V, A and B tables differ.
C17_shared_reference_profile ==
  /\ t55_V0 = t75_V0
  /\ t55_V # t75_V /\ t55_A # t75_A /\ t55_B # t75_B
  /\ Returned("polyTEOS10_55t") /\ ArrayArgs = {} =>
       LET sc == Apply("polyTEOS10_75t", args[1], args[2], args[3])
       IN  sc.t = "tuple" /\ out.v[4] = sc.v[4]

\* polyTEOS10_55t has returned at SA = 30, CT = 10 and p = 5000 a v0 other
\* than 0, and an anomaly that is not that of polyTEOS10_75t
C17_witness ==
  /\ Returned("polyTEOS10_55t") /\ ArrayArgs = {}
  /\ args[1] = CheckPoint[1] /\ args[2] = CheckPoint[2]
  /\ args[3] = Lit(0, 0, 5000, 0).val
  /\ IsFinite(out.v[4].v) /\ ~IsZero(out.v[4].v)
  /\ out.v[5] # Apply("polyTEOS10_75t", args[1], args[2], args[3]).v[5]

(***************************************************************************)
(* The anomaly polynomial as the sum of its monomials.                     *)
(***************************************************************************)
\* x^n, by n multiplications
RECURSIVE Power(_, _)
Power(x, n) == IF n = 0 THEN Lit(0, 0, 1, 0).val ELSE x (.) Power(x, n - 1)

\* the monomial of the coefficient at tab[k][j][i]: T * s^(i-1) * t^(j-1) * p~^(k-1)
Monomial(tab, s, t, pp, k, j, i) ==
  ((tab[k][j][i].val (.) Power(s, i - 1)) (.) Power(t, j - 1)) (.) Power(pp, k - 1)

\* the sum of the monomials of a row from i on, of a layer from row j on, of a
\* table from layer k on
RECURSIVE RowMonomials(_, _, _, _, _, _, _)
RowMonomials(tab, s, t, pp, k, j, i) ==
  LET head == Monomial(tab, s, t, pp, k, j, i)
  IN  IF i = Len(tab[k][j]) \/ IsRaise(head) THEN head
      ELSE LET rest == RowMonomials(tab, s, t, pp, k, j, i + 1)
           IN  IF IsRaise(rest) THEN rest ELSE head (+) rest

RECURSIVE LayerMonomials(_, _, _, _, _, _)
LayerMonomials(tab, s, t, pp, k, j) ==
  LET head == RowMonomials(tab, s, t, pp, k, j, 1)
  IN  IF j = Len(tab[k]) \/ IsRaise(head) THEN head
      ELSE LET rest == LayerMonomials(tab, s, t, pp, k, j + 1)
           IN  IF IsRaise(rest) THEN rest ELSE head (+) rest

RECURSIVE TableMonomials(_, _, _, _, _)
TableMonomials(tab, s, t, pp, k) ==
  LET head == LayerMonomials(tab, s, t, pp, k, 1)
  IN  IF k = Len(tab) \/ IsRaise(head) THEN head
      ELSE LET rest == TableMonomials(tab, s, t, pp, k + 1)
           IN  IF IsRaise(rest) THEN rest ELSE head (+) rest

\* the layer of p~^(k-1) of a table holds every s^i t^j of degree i + j <= d,
\* once
LayerOfDegree(tab, k, d) ==
  /\ Len(tab[k]) = d + 1
  /\ \A j \in 1..(d + 1) : Len(tab[k][j]) = d + 2 - j

\* the layers of a table have the degrees deg, from p~^0 up
LayersOfDegrees(tab, deg) ==
  Len(tab) = Len(deg) /\ \A k \in 1..Len(deg) : LayerOfDegree(tab, k, deg[k])

\* C18: the anomaly tables of polyTEOS10_bsq, polyTEOS10_stif and
\* polyTEOS10_55t have four pressure layers, of (s, t)-degree 6, 4, 2, 1 from
\* p~^0 to p~^3, that of polyTEOS10_75t six, of degree 6, 5, 4, 2, 1, 0, each
\* layer holding every monomial of its degree once; and the anomaly that the
\* nested evaluation returns is the sum of the monomials T[i][j][k] * s^i * t^j
\* * p~^k of the table (equal to it up to the rounding of the two orders of
\* evaluation), for every scalar call with ss > 0.
C18_anomaly_is_the_monomial_sum ==
  /\ LayersOfDegrees(bsq_R, << 6, 4, 2, 1 >>)
  /\ LayersOfDegrees(stif_R, << 6, 4, 2, 1 >>)
  /\ LayersOfDegrees(t55_V, << 6, 4, 2, 1 >>)
  /\ LayersOfDegrees(t75_V, << 6, 5, 4, 2, 1, 0 >>)
  /\ Returned("polyTEOS10_bsq") /\ ScalarCallAtPositiveS(bsq_ss(args[1])) =>
       LET ss == bsq_ss(args[1])
           tt == bsq_tt(args[2])
           pp == bsq_pp(args[3])
       IN  /\ Numbers(ss, tt, pp)
           /\ Close(out.v[5], TableMonomials(bsq_R, ss, tt, pp, 1))
  /\ Returned("polyTEOS10_stif") /\ ScalarCallAtPositiveS(stif_ss(args[1])) =>
       LET ss == stif_ss(args[1])
           tt == stif_tt(args[2])
           pp == stif_pp(args[3])
       IN  /\ Numbers(ss, tt, pp)
           /\ Close(out.v[5], TableMonomials(stif_R, ss, tt, pp, 1))
  /\ Returned("polyTEOS10_55t") /\ ScalarCallAtPositiveS(t55_ss(args[1])) =>
       LET ss == t55_ss(args[1])
           tt == t55_tt(args[2])
           pp == t55_pp(args[3])
       IN  /\ Numbers(ss, tt, pp)
           /\ Close(out.v[5], TableMonomials(t55_V, ss, tt, pp, 1))
  /\ Returned("polyTEOS10_75t") /\ ScalarCallAtPositiveS(t75_ss(args[1])) =>
       LET ss == t75_ss(args[1])
           tt == t75_tt(args[2])
           pp == t75_pp(args[3])
       IN  /\ Numbers(ss, tt, pp)
           /\ Close(out.v[5], TableMonomials(t75_V, ss, tt, pp, 1))

\* polyTEOS10_75t has returned at SA = 35, CT = -2 and p = 5000, where every
\* monomial of the table counts, an anomaly that is a number other than 0
C18_witness ==
  /\ Returned("polyTEOS10_75t") /\ ArrayArgs = {}
  /\ args[1] = Lit(0, 0, 35, 0).val /\ args[2] = Lit(1, 0, 2, 0).val
  /\ args[3] = Lit(0, 0, 5000, 0).val
  /\ IsFinite(out.v[5].v) /\ ~IsZero(out.v[5].v)
=============================================================================
